---- MODULE Spec2Model ----
(***************************************************************************)
(* Post write pipeline of app/post.go: CreatePost with its deduplication   *)
(* cache, pre-commit plugin chain, store write and deferred cache          *)
(* finalization; UpdatePost and PatchPost with the pre-commit plugin chain; *)
(* DeletePost; post search.                                                *)
(*                                                                         *)
(* Several CreatePost calls run concurrently.  A call is cut into atomic   *)
(* steps at its accesses to shared state: the dedup cache, the post store, *)
(* and the named result `err`, which the search-index goroutine of the     *)
(* same call also writes.  Code between two such accesses touches only the *)
(* call's own variables and is part of the step of the access before it;   *)
(* an error return before the index goroutine exists runs its deferred     *)
(* function (one cache access) in the same step.                           *)
(*                                                                         *)
(* Specifications:                                                         *)
(*   Spec       concurrent calls with and without a pending post id that  *)
(*              pass validation, one plugin, index goroutine; no time      *)
(*              passes                                                     *)
(*   SpecTTL    concurrent calls carrying one pending post id that pass    *)
(*              validation, one plugin, index goroutine, while the clock   *)
(*              advances                                                   *)
(*   SpecSeq    one client, calls in sequence, with the plugin answers and *)
(*              what each plugin was given recorded as history             *)
(*   SpecEffects one CreatePost from its store write to its return, each   *)
(*              effect and goroutine a step                                *)
(*   SpecUpdate UpdatePost calls cut into steps at the store reads, the    *)
(*              plugin chain and the store write, interleaved with a       *)
(*              PatchPost call of another caller and with DeletePost       *)
(*   SpecEdit   the same at the end of the edit window, with the new       *)
(*              version each call builds recorded as history               *)
(*   SpecAttach CreatePost calls in sequence, from the store write on,     *)
(*              with the file ids of the post followed                     *)
(*   SpecThread CreatePost calls in sequence, each with the goroutine that  *)
(*              fetches the root thread                                    *)
(*   SpecAsUser one client calling CreatePostAsUser, in sequence           *)
(*   SpecDelete one DeletePost and its cleanup goroutines                   *)
(*   SpecSearchLive searchPostsInTeam with every goroutine scheduled        *)
(*   SpecFallback SearchPostsInTeamForUser, first page, with filters        *)
(*   SpecSearch search calls in sequence, the query goroutines of a call   *)
(*              finishing in any order                                     *)
(***************************************************************************)
EXTENDS Integers, Sequences, FiniteSets, TLC

(* ------------------------------ bounds --------------------------------- *)

\* Concurrent request slots; a finished slot is reused by the next request.
Calls == {"c1", "c2"}

\* Non-empty pending post ids clients send; "" is "no pending post id".
Tokens == {"k1"}
Keys == Tokens \cup {""}

\* Successful Store.Post().Save calls in one behaviour.
MaxPosts == 2

\* Successful Store.Post().Save calls in one behaviour of SpecSeq.
SeqPosts == 1

\* Registered plugins implementing a hook.
MaxPlugins == 2

\* UpdatePost calls of the main caller in one behaviour.
MaxUpdates == 2

\* UpdatePost calls of the main caller where the new version is followed.
EditCalls == 1

\* PostEditTimeLimit when it is not -1, in seconds.
EditLimit == 1

\* File ids of one post.
MaxFiles == 2

\* Search-term specifications in one search call.
MaxParams == 2

\* The clock (seconds) stops advancing here.
MaxTime == 31

\* The clock advances in steps that reach T+30 and T+31 exactly.
TickSteps == {15, 16}

(* --------------------------- program constants ------------------------- *)

\* PENDING_POST_IDS_CACHE_TTL, in seconds.
PENDING_POST_IDS_CACHE_TTL == 30

\* const unknownPostId = "": the in-flight sentinel.  Saved post ids are the
\* positive integers here, and the sentinel is 0.
unknownPostId == 0

StatusBadRequest == 400
StatusForbidden == 403
StatusInternalServerError == 500

\* Line 500: PostEditTimeLimit is in seconds, GetMillis in milliseconds.
MillisPerSecond == 1000

NoErr == "nil"
ErrPending == "api.post.deduplicate_create_post.pending"
ErrFailedToGet == "api.post.deduplicate_create_post.failed_to_get"
ErrUserGet == "store.sql_user.get.app_error"
ErrReadOnly == "api.post.create_post.town_square_read_only"
ErrRootId == "api.post.create_post.root_id.app_error"
ErrChannelRootId == "api.post.create_post.channel_root_id.app_error"
ErrParentId == "api.post.create_post.parent_id.app_error"
ErrFillProps == "store.sql_channel.get_by_names.app_error"
ErrRejected == "Post rejected by plugin. spam"
DismissPostError == "plugin.message_will_be_posted.dismiss_post"
ErrSave == "store.sql_post.save.app_error"
ErrIndex == "ent.elasticsearch.index_post.error"

\* The StatusCode each error is created with in CreatePost.
Status(e) ==
    CASE e \in {ErrRootId, ErrRejected, DismissPostError} -> StatusBadRequest
      [] e = ErrReadOnly -> StatusForbidden
      [] OTHER -> StatusInternalServerError

(* ------------------------------- state --------------------------------- *)

VARIABLES
    now,      \* time.Now(), in seconds
    cache,    \* Srv.seenPendingPostIdsCache: key -> entry or NoEntry
    posts,    \* the post store: sequence of saved posts, a post's id its index
    call,     \* per request slot: position and variables of one CreatePost
    okRet,    \* history: first post id a writing CreatePost returned, per key
    upd,      \* UpdatePost: the stored post and the last call's outcome
    fx,       \* one CreatePost from its store write on, effect by effect
    srch,     \* one search call: its goroutines, result channel and outcome
    del,      \* one DeletePost call and its cleanup goroutines
    asUser,   \* one CreatePostAsUser call around CreatePost
    att,      \* one CreatePost of a post with files, from its store write on
    thr       \* one CreatePost and the goroutine fetching its root thread

vars == <<now, cache, posts, call, okRet, upd, fx, srch, del, asUser, att, thr>>

(* ------------------------- the dedup cache (utils.Cache) --------------- *)

\* An entry holds value and expires (0: never).  History: born, the time
\* the entry was first inserted.
NoEntry == [value |-> -1, expires |-> 0, born |-> 0]

\* time.Now().After(e.expires), for an entry with an expiry.
Expired(e, t) == e.expires # 0 /\ t > e.expires

\* Cache.getValue: an expired entry is removed and reported absent.
getValue(c, k, t) ==
    IF c[k] = NoEntry THEN [ok |-> FALSE, value |-> unknownPostId, cache |-> c]
    ELSE IF Expired(c[k], t)
         THEN [ok |-> FALSE, value |-> unknownPostId,
               cache |-> [c EXCEPT ![k] = NoEntry]]
         ELSE [ok |-> TRUE, value |-> c[k].value, cache |-> c]

\* Cache.add where every write of an entry restarts its window.
add_Renew(c, k, v, ttl, t) ==
    LET expires == IF ttl > 0 THEN t + ttl ELSE 0
    IN  [c EXCEPT ![k] = [value |-> v, expires |-> expires,
                          born |-> IF c[k] # NoEntry THEN c[k].born ELSE t]]

\* Cache.add: a key that is not in the cache (or whose entry has expired) is
\* inserted with the expiry t + ttl; an entry that is present gets the new
\* value and keeps its expiry, the window being measured from the first
\* insertion.
add(c, k, v, ttl, t) ==
    LET expires == IF ttl > 0 THEN t + ttl ELSE 0
    IN  IF c[k] # NoEntry /\ ~Expired(c[k], t)
        THEN [c EXCEPT ![k].value = v]
        ELSE [c EXCEPT ![k] = [value |-> v, expires |-> expires, born |-> t]]

\* Cache.AddWithExpiresInSecs(key, value, expireAtSecs)
AddWithExpiresInSecs(c, k, v, secs, t) == add(c, k, v, secs, t)

\* Cache.GetOrAdd(key, value, ttl) -> (actual, loaded), atomic.
GetOrAdd(c, k, v, ttl, t) ==
    LET g == getValue(c, k, t)
    IN  IF g.ok THEN [actual |-> g.value, loaded |-> TRUE, cache |-> g.cache]
        ELSE [actual |-> v, loaded |-> FALSE, cache |-> add(g.cache, k, v, ttl, t)]

\* Cache.Remove(key)
Remove(c, k) == [c EXCEPT ![k] = NoEntry]

(* ------------------------------ posts ---------------------------------- *)

\* A post as the pipeline sees it: its pending post id and which version of
\* the content it is (0: as sent by the client, i: as returned by plugin i).
NoPost == [pending |-> "", body |-> -1]
ClientPost(k) == [pending |-> k, body |-> 0]

\* One CreatePost call.  post, err, rpost, savedPost are the function's
\* variables; idx tells whether its index goroutine is still to run.
\* History: token (the pending post id the request arrived with), ret (how
\* the last call in this slot left deduplicateCreatePost, or returned),
\* over (the expired cache value the call's GetOrAdd replaced, -1: none),
\* snap (the cache value under token right after the deferred function),
\* wrote (Store.Post().Save was called), ran (RunMultiPluginHook was
\* called), chain and seen (the plugins' answers, the posts they were given),
\* thread (what is wrong with the post's root thread, "none": nothing),
\* readOnly (the read-only town-square policy applied to the post).
IdleCall == [pc |-> "idle", token |-> "", post |-> NoPost, err |-> NoErr,
             rpost |-> 0, savedPost |-> 0, idx |-> "none",
             ret |-> "none", over |-> -1, snap |-> -2,
             wrote |-> FALSE, ran |-> FALSE, chain |-> <<>>, seen |-> <<>>,
             thread |-> "none", readOnly |-> FALSE]

\* A post's Props map: isNil is the nil map; of the keys, 0 is "absent", 1 a
\* value a client set, 2 the value FillInPostProps computes.
NilProps == [isNil |-> TRUE, attachments |-> 0, channel_mentions |-> 0,
             add_channel_member |-> 0]
EmptyProps == [NilProps EXCEPT !.isNil = FALSE]

\* The fields of a stored post that UpdatePost reads or writes.  Message 0
\* is the stored text, 1 the text of an edit, 2 text set by a plugin; EditAt
\* 0 is "never edited", DeleteAt 0 "not deleted".  nil is the nil
\* *model.Post.
nil == [Message |-> -1, CreateAt |-> -1, EditAt |-> -1, DeleteAt |-> -1,
        IsPinned |-> FALSE, HasReactions |-> FALSE, FileIds |-> -1,
        Props |-> NilProps]
StoredPost == [Message |-> 0, CreateAt |-> 0, EditAt |-> 0, DeleteAt |-> 0,
               IsPinned |-> FALSE, HasReactions |-> FALSE, FileIds |-> 0,
               Props |-> EmptyProps]

\* The callers of UpdatePost and PatchPost that run at the same time: the
\* one whose calls are followed with every input, and another one.
Main == "u1"
Other == "u2"
Updaters == {Main, Other}

\* One caller's UpdatePost call before it starts.  pc: where the call is
\* (idle, update: PatchPost is about to call UpdatePost, channel: after line
\* 504, hooks: after line 538, store: after line 550, done: returned).
\* patch: the call came through PatchPost.  post, safeUpdate: the arguments.
\* license, limit: a license is present, PostEditTimeLimit.  t: GetMillis at
\* line 500.  old: oldPost.  built: newPost as the plugin chain receives it.
\* newPost: newPost.  hist: the plugins' responses.  wrote:
\* Store.Post().Update was called.  err, rpost: the results.
NoCall == [pc |-> "idle", patch |-> FALSE, post |-> nil, safeUpdate |-> FALSE,
           license |-> FALSE, limit |-> -1, t |-> 0, old |-> nil,
           built |-> nil, newPost |-> nil, hist |-> <<>>, wrote |-> FALSE,
           err |-> NoErr, rpost |-> nil]

\* The state before the first UpdatePost call: the stored post, the number
\* of calls each caller started, the clock GetMillis reads (milliseconds), and the
\* callers' calls.
NoUpdate == [stored |-> StoredPost, n |-> [u \in Updaters |-> 0], now |-> 0,
             call |-> [u \in Updaters |-> NoCall]]

\* One CreatePost followed from Store.Post().Save to its return.  cfg is
\* what the request and the configuration are: a plugins environment, search
\* indexing enabled, the post has FileIds, the channel has a TeamId,
\* triggerWebhooks.  hook, index, auto, webhook are the goroutines started
\* with Srv.Go; err is the named result.  History: log, the effects in the
\* order they happened; ret, what the caller received.
NoConfig == [plugins |-> FALSE, es |-> FALSE, files |-> FALSE, team |-> FALSE,
             webhooks |-> FALSE]
NoEffects == [pc |-> "idle", cfg |-> NoConfig, log |-> <<>>,
              hook |-> "none", index |-> "none", auto |-> "none",
              webhook |-> "none", err |-> NoErr, ret |-> "none"]

\* nil *model.PostList, and model.NewPostList(): Order is the list of post
\* ids (the Posts map holds exactly the posts in Order).
NilList == [Order |-> <<-1>>]
NewPostList == [Order |-> <<>>]

\* No search call yet.  caller: the exported function called; paramsList;
\* running: the query goroutines not yet finished; pchan: the results sent
\* to the channel, in the order sent; posts, err: the results returned.
\* History: got (what each query returned), from (the query whose error is
\* returned), enablePostSearch and esEnabled (the configuration), es (what
\* the index backend did: "none" when not asked, "error", "ok"), page, ran
\* (the aggregator searchPostsInTeam was called), ret (the kind of result
\* returned), modified (the specifications modifierFun was applied to), asked
\* (the specifications handed to the search of the index backend).
\* filters: the filter fields and OR flag of each specification as they are
\* now; history: request (as they were parsed), lookupOk, isOrSearch, sent
\* (as the store query of each specification received them).
NoSearch == [pc |-> "idle", caller |-> "none", paramsList |-> <<>>,
             running |-> {}, pchan |-> <<>>, posts |-> NilList, err |-> NoErr,
             got |-> <<>>, from |-> 0, enablePostSearch |-> TRUE,
             esEnabled |-> FALSE, es |-> "none", page |-> 0, ran |-> FALSE,
             ret |-> "none", modified |-> {}, asked |-> {},
             filters |-> <<>>, request |-> <<>>, lookupOk |-> TRUE,
             isOrSearch |-> FALSE, sent |-> <<>>]

\* No CreatePostAsUser call yet.  posts0: the store when the call began;
\* events: the ephemeral posts published, each with the user it is
\* broadcast to; err, ret: the results returned.
NoAsUser == [pc |-> "idle", posts0 |-> <<>>, events |-> <<>>,
             err |-> NoErr, status |-> 0, ret |-> "none"]

\* No CreatePost with a root thread fetch yet.  pc: where CreatePost is;
\* rootId: the post has a RootId; fetch: where the goroutine of lines 169-173
\* is ("none": not started); pchan: the channel; closed: it is closed;
\* parentId: the ParentId of the post ("", "root": the RootId, or "other").
\* History: t (what Store.Post().Get answered), result (what CreatePost
\* received), validated (the checks of lines 195-218 passed), err, ret.
NoThread == [pc |-> "idle", rootId |-> FALSE, parentId |-> "",
             fetch |-> "none", pchan |-> <<>>,
             closed |-> FALSE, t |-> "none", result |-> "none",
             validated |-> FALSE, err |-> NoErr, ret |-> "none"]

\* No CreatePost with files yet.  post: the FileIds of the post handed to
\* the store (Save returns that same post as rpost); stored: the FileIds the
\* store holds; i, attachedIds: the loop of attachFilesToPost; rpost: the
\* FileIds of the post returned (<<"nil">>: no post).  History: request (the
\* FileIds the post came with), results (how each AttachToPost call ended),
\* log (the steps in the order they happened), ret.
NoAttach == [pc |-> "idle", post |-> <<>>, stored |-> <<>>, i |-> 1,
             attachedIds |-> <<>>, rpost |-> <<"nil">>, request |-> <<>>,
             results |-> <<>>, log |-> <<>>, err |-> NoErr, ret |-> "none"]

\* No DeletePost call yet.  deleted: the store has soft-deleted the post;
\* es: IsESIndexingEnabled(); hasFiles: the post has FileIds; files, flagged,
\* index: the cleanup goroutines ("none": not started, "spawned", then how
\* they ended); err, ret: the results returned.
NoDelete == [pc |-> "idle", deleted |-> FALSE, es |-> FALSE, hasFiles |-> FALSE,
             files |-> "none", flagged |-> "none", index |-> "none",
             err |-> NoErr, ret |-> "none"]

Init ==
    /\ now = 0
    /\ cache = [k \in Keys |-> NoEntry]
    /\ posts = <<>>
    /\ call = [c \in Calls |-> IdleCall]
    /\ okRet = [k \in Keys |-> 0]
    /\ upd = NoUpdate
    /\ fx = NoEffects
    /\ srch = NoSearch
    /\ del = NoDelete
    /\ asUser = NoAsUser
    /\ att = NoAttach
    /\ thr = NoThread

(* --------------------------- deduplicateCreatePost --------------------- *)

\* DedupLookup with the sentinel inserted without an expiry.
DedupLookup_NoExpiry(k) == GetOrAdd(cache, k, unknownPostId, 0, now)

\* Line 111: the atomic cache query of deduplicateCreatePost.
DedupLookup(k) == GetOrAdd(cache, k, unknownPostId, PENDING_POST_IDS_CACHE_TTL, now)

\* deduplicateCreatePost without the test for the sentinel (lines 124-126):
\* the sentinel is looked up in the store as if it were a post id.
deduplicateCreatePost_NoPendingCheck(k, getOk) ==
    IF k = ""
    THEN [found |-> 0, err |-> NoErr, cache |-> cache]
    ELSE LET r == GetOrAdd(cache, k, unknownPostId, PENDING_POST_IDS_CACHE_TTL, now)
         IN  IF ~r.loaded
             THEN [found |-> 0, err |-> NoErr, cache |-> r.cache]
             ELSE IF ~getOk \/ r.actual = unknownPostId
             THEN [found |-> 0, err |-> ErrFailedToGet, cache |-> r.cache]
             ELSE [found |-> r.actual, err |-> NoErr, cache |-> r.cache]

\* deduplicateCreatePost that reports a post found in the cache as new, so
\* that CreatePost goes on to create it again.
deduplicateCreatePost_Recreate(k, getOk) ==
    IF k = ""
    THEN [found |-> 0, err |-> NoErr, cache |-> cache]
    ELSE LET r == GetOrAdd(cache, k, unknownPostId, PENDING_POST_IDS_CACHE_TTL, now)
         IN  IF ~r.loaded
             THEN [found |-> 0, err |-> NoErr, cache |-> r.cache]
             ELSE IF r.actual = unknownPostId
             THEN [found |-> 0, err |-> ErrPending, cache |-> r.cache]
             ELSE [found |-> 0, err |-> NoErr, cache |-> r.cache]

\* deduplicateCreatePost(post) -> (foundPost, err), with the cache it leaves.
\* getOk: whether Store.Post().GetSingle succeeds if it is called.
deduplicateCreatePost(k, getOk) ==
    IF k = ""
    THEN [found |-> 0, err |-> NoErr, cache |-> cache]
    ELSE LET r == DedupLookup(k)
         IN  IF ~r.loaded
             THEN [found |-> 0, err |-> NoErr, cache |-> r.cache]
             ELSE IF r.actual = unknownPostId
             THEN [found |-> 0, err |-> ErrPending, cache |-> r.cache]
             ELSE IF ~getOk
             THEN [found |-> 0, err |-> ErrFailedToGet, cache |-> r.cache]
             ELSE [found |-> r.actual, err |-> NoErr, cache |-> r.cache]

\* CreatePost lines 141-147: a request arrives in a free slot with pending
\* post id k.
Dedup(c, K) ==
    /\ call[c].pc = "idle"
    /\ call[c].idx # "spawned"
    /\ \E k \in K, getOk \in BOOLEAN :
        LET d == deduplicateCreatePost(k, getOk)
            base == [IdleCall EXCEPT !.token = k, !.post = ClientPost(k)]
        IN  /\ cache' = d.cache
            /\ call' = [call EXCEPT ![c] =
                 IF d.err # NoErr
                 THEN [base EXCEPT !.err = d.err,
                                   !.ret = IF d.err = ErrPending THEN "pending"
                                           ELSE "failed_to_get"]
                 ELSE IF d.found # 0
                 THEN [base EXCEPT !.savedPost = d.found, !.ret = "found"]
                 ELSE [base EXCEPT !.pc = "pre", !.ret = "owner",
                                   !.over = IF cache[k] # NoEntry /\ k # ""
                                            THEN cache[k].value ELSE -1]]
    /\ UNCHANGED <<now, posts, okRet, upd, fx, srch, del, asUser, att, thr>>

(* ------------------ CreatePost: validation and enrichment -------------- *)

\* Lines 185-188: the read-only town-square policy.
TownSquareReadOnly(p) ==
    p.license /\ p.readOnlyCfg /\ ~p.systemMessage /\ p.defaultChannel /\ ~p.manageSystem

\* The policy applying, and each way of one condition keeping it from applying.
PolicyCases ==
    LET hit == [license |-> TRUE, readOnlyCfg |-> TRUE, systemMessage |-> FALSE,
                defaultChannel |-> TRUE, manageSystem |-> FALSE]
    IN  {hit, [hit EXCEPT !.license = FALSE], [hit EXCEPT !.readOnlyCfg = FALSE],
         [hit EXCEPT !.systemMessage = TRUE], [hit EXCEPT !.defaultChannel = FALSE],
         [hit EXCEPT !.manageSystem = TRUE]}

\* What the root thread fetch (Store.Post().Get(post.RootId)) shows, for a
\* post with a RootId; "none" is a post without RootId.
ThreadCases == {"none", "fetch_error", "not_in_channel", "root_has_root",
                "parent_missing", "ok"}

\* The root threads the check of lines 194-219 is to reject.
BadThreads == {"not_in_channel", "root_has_root", "parent_missing"}

\* Lines 194-219 without the test of the root post's own RootId.
ThreadError_NoRootCheck(t) ==
    CASE t = "fetch_error" -> ErrRootId
      [] t = "not_in_channel" -> ErrChannelRootId
      [] t = "parent_missing" -> ErrParentId
      [] OTHER -> NoErr

\* Lines 194-219: the parent/child check on the fetched root thread.
ThreadError(t) ==
    CASE t = "fetch_error" -> ErrRootId
      [] t = "not_in_channel" -> ErrChannelRootId
      [] t = "root_has_root" -> ErrRootId
      [] t = "parent_missing" -> ErrParentId
      [] OTHER -> NoErr

\* Lines 164-238 as a function of what the collaborators answer: the error
\* CreatePost returns before the plugin chain, or NoErr.
ValidateError(userOk, policy, thread, fillOk) ==
    IF ~userOk THEN ErrUserGet
    ELSE IF TownSquareReadOnly(policy) THEN ErrReadOnly
    ELSE IF ThreadError(thread) # NoErr THEN ThreadError(thread)
    ELSE IF ~fillOk THEN ErrFillProps
    ELSE NoErr

(* ------------------ CreatePost: pre-commit plugin chain ----------------- *)

RejectionReasons == {"", "spam", DismissPostError}

\* What plugin i may return from MessageWillBePosted: (replacementPost,
\* rejectionReason).  A replacement is any post the plugin builds.
Responses(i) ==
    [post : {NoPost} \cup [pending : Keys, body : {i}], reason : RejectionReasons]

\* The chains of at most n plugins, plugin i answering with one of its own
\* responses.
Chains(n) ==
    UNION {{h \in [1..m -> UNION {Responses(i) : i \in 1..n}] :
               \A i \in 1..m : h[i] \in Responses(i)} : m \in 0..n}

\* The chains in which a plugin that rejects gives "spam" as its reason.
PlainChains(n) ==
    {h \in Chains(n) : \A i \in DOMAIN h : h[i].reason # DismissPostError}

\* The callback returning true after a rejection: the chain goes on.
MessageWillBePostedHook_NoStop(st, resp) ==
    LET seen == Append(st.seen, st.post)
    IN  IF resp.reason # ""
        THEN [st |-> [st EXCEPT !.seen = seen,
                         !.rejectionError =
                             IF resp.reason = DismissPostError
                             THEN DismissPostError ELSE ErrRejected],
              cont |-> TRUE]
        ELSE IF resp.post # NoPost
        THEN [st |-> [st EXCEPT !.seen = seen, !.post = resp.post], cont |-> TRUE]
        ELSE [st |-> [st EXCEPT !.seen = seen], cont |-> TRUE]

\* Lines 244-257: the callback CreatePost hands to RunMultiPluginHook.  st
\* holds the captured variables post and rejectionError (and, as history,
\* the posts the plugins were given).
MessageWillBePostedHook(st, resp) ==
    LET seen == Append(st.seen, st.post)
    IN  IF resp.reason # ""
        THEN [st |-> [st EXCEPT !.seen = seen,
                         !.rejectionError =
                             IF resp.reason = DismissPostError
                             THEN DismissPostError ELSE ErrRejected],
              cont |-> FALSE]
        ELSE IF resp.post # NoPost
        THEN [st |-> [st EXCEPT !.seen = seen, !.post = resp.post], cont |-> TRUE]
        ELSE [st |-> [st EXCEPT !.seen = seen], cont |-> TRUE]

\* Environment.RunMultiPluginHook: the hooks in registration order, until
\* the callback returns false.
RECURSIVE RunWillBePosted(_, _, _)
RunWillBePosted(hooks, i, st) ==
    IF i > Len(hooks) THEN st
    ELSE LET r == MessageWillBePostedHook(st, hooks[i])
         IN  IF r.cont THEN RunWillBePosted(hooks, i + 1, r.st) ELSE r.st

\* Lines 240-263: the outcomes of the chains for the working post.  Without
\* a plugins environment (GetPluginsEnvironment() == nil) no hook runs.  With
\* rec the plugins' answers and what they were given are kept as history
\* (chain, seen); the working post, the rejection error and ran (history:
\* the chain was run) do not depend on rec.
HookOutcomes(post, chains, rec) ==
    LET st0 == [post |-> post, rejectionError |-> NoErr, seen |-> <<>>]
        run(h) == RunWillBePosted(h, 1, st0)
    IN  {[post |-> st0.post, rejectionError |-> NoErr, seen |-> <<>>,
          chain |-> <<>>, ran |-> FALSE]}
        \cup
        {[post |-> run(h).post,
          rejectionError |-> run(h).rejectionError,
          seen |-> IF rec THEN run(h).seen ELSE <<>>,
          chain |-> IF rec THEN h ELSE <<>>,
          ran |-> TRUE] : h \in chains}

(* ------------------ CreatePost: the deferred function ------------------- *)

\* Lines 151-162: the deferred function.  It reads post, err and savedPost
\* as they are when it runs.
DeferredCache(r) ==
    IF r.post.pending = "" THEN cache
    ELSE IF r.err # NoErr THEN Remove(cache, r.post.pending)
    ELSE AddWithExpiresInSecs(cache, r.post.pending, r.savedPost,
                              PENDING_POST_IDS_CACHE_TTL, now)

\* `return nil, e` before the index goroutine exists: the named results are
\* set, the deferred function runs, the caller receives (nil, e).
ReturnError(c, r, e) ==
    LET cc == DeferredCache([r EXCEPT !.err = e])
    IN  /\ cache' = cc
        /\ call' = [call EXCEPT ![c] =
               [IdleCall EXCEPT !.token = r.token, !.ret = "error", !.err = e,
                                !.snap = cc[r.token].value,
                                !.wrote = r.wrote, !.ran = r.ran,
                                !.chain = r.chain, !.seen = r.seen,
                                !.thread = r.thread,
                                !.readOnly = r.readOnly]]

\* What the collaborators of lines 164-238 answer: the author lookup, the
\* conditions of the policy, the root thread fetch, FillInPostProps.
Answers == [userOk : BOOLEAN, policy : PolicyCases, thread : ThreadCases,
            fillOk : BOOLEAN]

\* A post without RootId and without channel mentions in a channel the
\* policy does not apply to: only the author lookup can fail.
PlainAnswers ==
    {a \in Answers : /\ a.policy = [license |-> FALSE, readOnlyCfg |-> TRUE,
                                    systemMessage |-> FALSE,
                                    defaultChannel |-> TRUE,
                                    manageSystem |-> FALSE]
                     /\ a.thread = "none" /\ a.fillOk}

\* The errors lines 164-238 can return for the answers, each with the root
\* thread the post came with and whether the read-only policy applied
\* (history).
Validations(answers) ==
    {[err |-> ValidateError(a.userOk, a.policy, a.thread, a.fillOk),
      thread |-> IF a.thread \in BadThreads THEN a.thread ELSE "none",
      readOnly |-> a.userOk /\ TownSquareReadOnly(a.policy)] :
        a \in answers}

\* Lines 45-51: the status of the error CreatePostAsUser returns for the
\* error e of CreatePost.
CreatePostAsUserStatus(e) ==
    IF e \in {ErrRootId, ErrChannelRootId, ErrParentId}
    THEN StatusBadRequest
    ELSE Status(e)

\* Lines 164-263.
PreCommit(c, chains, rec, answers) ==
    /\ call[c].pc = "pre"
    /\ \E v \in Validations(answers) :
        IF v.err # NoErr
        THEN ReturnError(c, [call[c] EXCEPT !.thread = v.thread,
                                            !.readOnly = v.readOnly],
                         v.err)
        ELSE \E o \in HookOutcomes(call[c].post, chains, rec) :
            LET r == [call[c] EXCEPT !.post = o.post, !.ran = o.ran,
                                     !.chain = o.chain, !.seen = o.seen,
                                     !.thread = v.thread,
                                     !.readOnly = v.readOnly]
            IN  IF o.rejectionError # NoErr
                THEN ReturnError(c, r, o.rejectionError)
                ELSE /\ call' = [call EXCEPT ![c] = [r EXCEPT !.pc = "save"]]
                     /\ cache' = cache
    /\ UNCHANGED <<now, posts, okRet, upd, fx, srch, del, asUser, att, thr>>

(* ------------------ CreatePost: store write and finalization ------------ *)

\* Lines 265-268.  The saved post's id is its index in the store; `by` is
\* history, the pending post id the request arrived with.  At most max
\* saves succeed in one behaviour.
Save(c, max) ==
    /\ call[c].pc = "save"
    /\ \/ /\ Len(posts) < max
          /\ posts' = Append(posts, [body |-> call[c].post.body, by |-> call[c].token])
          /\ call' = [call EXCEPT ![c] = [@ EXCEPT !.pc = "finalize", !.err = NoErr,
                                             !.rpost = Len(posts) + 1,
                                             !.wrote = TRUE]]
          /\ cache' = cache
       \/ /\ posts' = posts
          /\ ReturnError(c, [call[c] EXCEPT !.wrote = TRUE], ErrSave)
    /\ UNCHANGED <<now, okRet, upd, fx, srch, del, asUser, att, thr>>

\* Line 272: the saved post id is recorded under the working post's pending
\* post id.
FinalizeKey(r) == r.post.pending

\* Lines 272-314: the cache update; then the dispatch of the post-commit
\* hooks and of the index goroutine (when IsESIndexingEnabled()), file
\* attachment, response transform, post events, and `return rpost, nil`,
\* which sets the named results.  The deferred function is next.
Finalize(c, ES) ==
    /\ call[c].pc = "finalize"
    /\ cache' = AddWithExpiresInSecs(cache, FinalizeKey(call[c]), call[c].rpost,
                                     PENDING_POST_IDS_CACHE_TTL, now)
    /\ \E esEnabled \in ES :
        call' = [call EXCEPT ![c] =
            [@ EXCEPT !.pc = "defer",
                      !.idx = IF esEnabled THEN "spawned" ELSE "none",
                      !.savedPost = call[c].rpost,
                      !.err = NoErr]]
    /\ UNCHANGED <<now, posts, okRet, upd, fx, srch, del, asUser, att, thr>>

\* Lines 285-289: the goroutine assigns IndexPost's result to the enclosing
\* function's named result err, unsynchronized with the function's return
\* and deferred function.  Once the call has returned nothing reads err any
\* more.
IndexPost(c) ==
    /\ call[c].idx = "spawned"
    /\ \E ok \in BOOLEAN :
        call' = [call EXCEPT ![c] =
            IF call[c].pc = "idle"
            THEN [@ EXCEPT !.idx = "none"]
            ELSE [@ EXCEPT !.idx = "none", !.err = IF ok THEN NoErr ELSE ErrIndex]]
    /\ UNCHANGED <<now, cache, posts, okRet, upd, fx, srch, del, asUser, att, thr>>

\* The deferred function after `return rpost, nil`.
Defer(c) ==
    /\ call[c].pc = "defer"
    /\ cache' = DeferredCache(call[c])
    /\ call' = [call EXCEPT ![c] = [@ EXCEPT !.pc = "exit",
                                       !.snap = cache'[call[c].token].value]]
    /\ UNCHANGED <<now, posts, okRet, upd, fx, srch, del, asUser, att, thr>>

\* The caller receives the named results as they are after the deferred
\* function.
Exit(c) ==
    /\ call[c].pc = "exit"
    /\ call' = [call EXCEPT ![c] =
           [IdleCall EXCEPT !.idx = call[c].idx, !.token = call[c].token,
                            !.ret = IF call[c].err = NoErr THEN "ok" ELSE "error"]]
    /\ okRet' = [okRet EXCEPT ![call[c].token] =
                    IF @ = 0 /\ call[c].err = NoErr THEN call[c].savedPost ELSE @]
    /\ UNCHANGED <<now, cache, posts, upd, fx, srch, del, asUser, att, thr>>

(* --------------- CreatePost: the effects after the store write ---------- *)

Configs == [plugins : BOOLEAN, es : BOOLEAN, files : BOOLEAN, team : BOOLEAN,
            webhooks : BOOLEAN]

ErrAttach == "store.sql_post.overwrite.app_error"

\* Lines 265-268: a request reaches Store.Post().Save.
FxSave ==
    /\ fx.pc \in {"idle", "done"}
    /\ \A g \in {fx.hook, fx.index, fx.auto, fx.webhook} : g # "spawned"
    /\ \E cfg \in Configs, ok \in BOOLEAN :
        fx' = IF ok
              THEN [NoEffects EXCEPT !.pc = "dispatch", !.cfg = cfg, !.log = <<"save">>]
              ELSE [NoEffects EXCEPT !.pc = "done", !.cfg = cfg, !.err = ErrSave,
                                     !.ret = "error"]
    /\ UNCHANGED <<now, cache, posts, call, okRet, upd, srch, del, asUser, att, thr>>

\* Lines 272-294: the goroutine of the post-commit hooks (with a plugins
\* environment) and the index goroutine (with indexing enabled) are started.
FxDispatch ==
    /\ fx.pc = "dispatch"
    /\ fx' = [fx EXCEPT !.pc = "attach",
                        !.hook = IF fx.cfg.plugins THEN "spawned" ELSE "none",
                        !.index = IF fx.cfg.es THEN "spawned" ELSE "none"]
    /\ UNCHANGED <<now, cache, posts, call, okRet, upd, srch, del, asUser, att, thr>>

\* Lines 296-304: attachFilesToPost for a post with FileIds; its result is
\* assigned to err and logged.
FxAttach ==
    /\ fx.pc = "attach"
    /\ IF fx.cfg.files
       THEN \E ok \in BOOLEAN :
               fx' = [fx EXCEPT !.pc = "prepare",
                                !.err = IF ok THEN NoErr ELSE ErrAttach,
                                !.log = Append(@, IF ok THEN "attach"
                                                  ELSE "attach_failed")]
       ELSE fx' = [fx EXCEPT !.pc = "prepare"]
    /\ UNCHANGED <<now, cache, posts, call, okRet, upd, srch, del, asUser, att, thr>>

\* Line 308: rpost = PreparePostForClient(rpost, true, false).
FxPrepare ==
    /\ fx.pc = "prepare"
    /\ fx' = [fx EXCEPT !.pc = "team", !.log = Append(@, "prepare")]
    /\ UNCHANGED <<now, cache, posts, call, okRet, upd, srch, del, asUser, att, thr>>

\* handlePostEvents lines 382-392: the team lookup for a channel with a
\* TeamId; on its error handlePostEvents returns, CreatePost logs the error
\* (lines 310-312).
FxTeam ==
    /\ fx.pc = "team"
    /\ IF fx.cfg.team
       THEN \E ok \in BOOLEAN :
               fx' = IF ok THEN [fx EXCEPT !.pc = "invalidate"]
                     ELSE [fx EXCEPT !.pc = "return",
                                     !.log = Append(@, "team_failed")]
       ELSE fx' = [fx EXCEPT !.pc = "invalidate"]
    /\ UNCHANGED <<now, cache, posts, call, okRet, upd, srch, del, asUser, att, thr>>

\* handlePostEvents lines 394-395: InvalidateCacheForChannel and
\* InvalidateCacheForChannelPosts.
FxInvalidate ==
    /\ fx.pc = "invalidate"
    /\ fx' = [fx EXCEPT !.pc = "notify", !.log = Append(@, "invalidate")]
    /\ UNCHANGED <<now, cache, posts, call, okRet, upd, srch, del, asUser, att, thr>>

\* handlePostEvents lines 397-399: SendNotifications; on its error
\* handlePostEvents returns.
FxNotify ==
    /\ fx.pc = "notify"
    /\ \E ok \in BOOLEAN :
        fx' = IF ok THEN [fx EXCEPT !.pc = "spawn", !.log = Append(@, "notify")]
              ELSE [fx EXCEPT !.pc = "return", !.log = Append(@, "notify_failed")]
    /\ UNCHANGED <<now, cache, posts, call, okRet, upd, srch, del, asUser, att, thr>>

\* handlePostEvents lines 401-416: the auto-responder goroutine and, with
\* triggerWebhooks, the webhook goroutine are started.
FxSpawn ==
    /\ fx.pc = "spawn"
    /\ fx' = [fx EXCEPT !.pc = "return", !.auto = "spawned",
                        !.webhook = IF fx.cfg.webhooks THEN "spawned" ELSE "none"]
    /\ UNCHANGED <<now, cache, posts, call, okRet, upd, srch, del, asUser, att, thr>>

\* Line 314: `return rpost, nil` sets the named results.
FxReturn ==
    /\ fx.pc = "return"
    /\ fx' = [fx EXCEPT !.pc = "exit", !.err = NoErr]
    /\ UNCHANGED <<now, cache, posts, call, okRet, upd, srch, del, asUser, att, thr>>

\* The caller receives the named results.
FxExit ==
    /\ fx.pc = "exit"
    /\ fx' = [fx EXCEPT !.pc = "done",
                        !.ret = IF fx.err = NoErr THEN "ok" ELSE "error"]
    /\ UNCHANGED <<now, cache, posts, call, okRet, upd, srch, del, asUser, att, thr>>

\* Lines 275-281: the goroutine running the MessageHasBeenPosted hooks.
FxHook ==
    /\ fx.hook = "spawned"
    /\ fx' = [fx EXCEPT !.hook = "done", !.log = Append(@, "hook")]
    /\ UNCHANGED <<now, cache, posts, call, okRet, upd, srch, del, asUser, att, thr>>

\* Lines 285-289: the index goroutine; IndexPost's result is assigned to the
\* named result err of CreatePost (which nothing reads once the caller has
\* the results).
FxIndex ==
    /\ fx.index = "spawned"
    /\ \E ok \in BOOLEAN :
        fx' = [fx EXCEPT !.index = "done",
                         !.err = IF fx.pc = "done" THEN @
                                 ELSE IF ok THEN NoErr ELSE ErrIndex,
                         !.log = Append(@, IF ok THEN "index" ELSE "index_failed")]
    /\ UNCHANGED <<now, cache, posts, call, okRet, upd, srch, del, asUser, att, thr>>

\* handlePostEvents lines 401-406: the auto-responder goroutine.
FxAuto ==
    /\ fx.auto = "spawned"
    /\ fx' = [fx EXCEPT !.auto = "done", !.log = Append(@, "auto")]
    /\ UNCHANGED <<now, cache, posts, call, okRet, upd, srch, del, asUser, att, thr>>

\* handlePostEvents lines 408-414: the webhook goroutine.
FxWebhook ==
    /\ fx.webhook = "spawned"
    /\ fx' = [fx EXCEPT !.webhook = "done", !.log = Append(@, "webhook")]
    /\ UNCHANGED <<now, cache, posts, call, okRet, upd, srch, del, asUser, att, thr>>

(* ------------------------------ UpdatePost ------------------------------ *)

ErrPostGet == "store.sql_post.get.app_error"
ErrUpdateFind == "api.post.update_post.find.app_error"
ErrUpdateDeleted == "api.post.update_post.permissions_details.app_error"
ErrUpdateSystem == "api.post.update_post.system_message.app_error"
ErrUpdateTimeLimit == "api.post.update_post.permissions_time_limit.app_error"
ErrChannelGet == "store.sql_channel.get.existing.app_error"
ErrUpdateChannelDeleted == "api.post.update_post.can_not_update_post_in_deleted.error"
ErrUpdateRejected(rejectionReason) == "Post rejected by plugin. " \o rejectionReason
ErrUpdate == "store.sql_post.update.app_error"
ErrPostGetSingle == "store.sql_post.get_single.app_error"
ErrPatchChannelDeleted == "api.post.patch_post.can_not_update_post_in_deleted.error"
ErrInvalidParam == "api.context.invalid_param.app_error"

\* The rejectionReason values the plugins of the model give.
UpdateReasons == {"", "spam"}

\* The Props maps a client sends.
PropsInputs ==
    {NilProps, EmptyProps, [EmptyProps EXCEPT !.attachments = 1],
     [EmptyProps EXCEPT !.channel_mentions = 1],
     [EmptyProps EXCEPT !.add_channel_member = 1]}

\* The posts a client sends to UpdatePost where only the plugin chain is
\* followed.
UpdateRequests ==
    [Message : {0, 1}, IsPinned : BOOLEAN, HasReactions : {FALSE},
     FileIds : {0}, Props : {NilProps}]

\* The posts a client sends to UpdatePost where the new version is followed:
\* the stored post as it is, one field changed, and all fields changed.
EditRequests ==
    LET same == [Message |-> 0, IsPinned |-> FALSE, HasReactions |-> FALSE,
                 FileIds |-> 0, Props |-> EmptyProps]
    IN  {same, [same EXCEPT !.Message = 1], [same EXCEPT !.IsPinned = TRUE],
         [same EXCEPT !.HasReactions = TRUE], [same EXCEPT !.FileIds = 1]}
        \cup {[same EXCEPT !.Props = p] : p \in PropsInputs}
        \cup {[Message |-> 1, IsPinned |-> TRUE, HasReactions |-> TRUE,
               FileIds |-> 1, Props |-> p] : p \in PropsInputs}

\* Of these, the ones that differ from the first stored post in the message
\* at most.
MessageRequests ==
    {r \in EditRequests :
        /\ ~r.IsPinned /\ ~r.HasReactions
        /\ r.FileIds = 0 /\ r.Props = EmptyProps}

\* The times GetMillis shows: the last millisecond of the edit window of a
\* post created at 0, and the first one after it.
EditTimes == {EditLimit * MillisPerSecond, EditLimit * MillisPerSecond + 1}

\* What Store.Post().Get(post.Id) finds under the id the client names: an
\* error, no post, a deleted post, a system message, or the stored post.
OldPostCases == {"get_error", "missing", "deleted", "system", "ok"}

\* What GetChannel finds: an error, a deleted channel, or the channel.
ChannelCases == {"get_error", "deleted", "ok"}

\* The StatusCode of the errors UpdatePost and PatchPost create, and of the
\* error FillInPostProps creates at line 353; the errors of the store come
\* with the status the store gave them.
UpdateStatus(e) ==
    IF e \in {ErrUpdateFind, ErrUpdateDeleted, ErrUpdateSystem,
              ErrUpdateTimeLimit, ErrUpdateChannelDeleted,
              ErrPatchChannelDeleted, ErrInvalidParam}
             \cup {ErrUpdateRejected(r) : r \in UpdateReasons}
    THEN StatusBadRequest
    ELSE StatusInternalServerError

\* Line 476, Post.SanitizeProps: the keys a client must not set are deleted.
SanitizeProps(post) ==
    [post EXCEPT !.Props.add_channel_member = 0]

\* What FillInPostProps(post, nil) finds for the post's message, lines
\* 346-371: "none" (no channel is mentioned, or none of the mentioned ones
\* is an open channel), "no_channel" (a mention, and
\* Store.Channel().GetForPost fails), "error" (a mention, and
\* GetChannelsByNames fails), "found".
MentionCases == {"no_channel", "error", "none", "found"}

\* Lines 350-362: the error FillInPostProps(post, nil) returns, or NoErr.
FillInPostPropsError(mentions) ==
    CASE mentions = "no_channel" -> ErrInvalidParam
      [] mentions = "error" -> ErrFillProps
      [] OTHER -> NoErr

\* Lines 373-377: the channel_mentions key is set (Post.AddProp, on a new map
\* when Props is nil) or deleted from the post's map.
FillInPostProps(post, mentions) ==
    IF mentions = "found"
    THEN [post EXCEPT !.Props.isNil = FALSE, !.Props.channel_mentions = 2]
    ELSE IF ~post.Props.isNil
    THEN [post EXCEPT !.Props.channel_mentions = 0]
    ELSE post

\* Lines 478-497 without the edit time limit.
UpdateChecks_NoLimit(post, oldPost, found, license, limit, millis) ==
    CASE found = "get_error" -> ErrPostGet
      [] found = "missing" -> ErrUpdateFind
      [] found = "deleted" \/ oldPost.DeleteAt # 0 -> ErrUpdateDeleted
      [] found = "system" -> ErrUpdateSystem
      [] OTHER -> NoErr

\* Lines 478-504: the error UpdatePost returns before it loads the channel,
\* or NoErr.  license: a.License() != nil; limit: PostEditTimeLimit; millis:
\* GetMillis() at line 500.
UpdateChecks(post, oldPost, found, license, limit, millis) ==
    CASE found = "get_error" -> ErrPostGet
      [] found = "missing" -> ErrUpdateFind
      [] found = "deleted" \/ oldPost.DeleteAt # 0 -> ErrUpdateDeleted
      [] found = "system" -> ErrUpdateSystem
      [] /\ license
         /\ limit # -1
         /\ millis > oldPost.CreateAt + limit * MillisPerSecond
         /\ post.Message # oldPost.Message -> ErrUpdateTimeLimit
      [] OTHER -> NoErr

\* Lines 506-513: the error of the channel lookup, or NoErr.
UpdateChannelChecks(channel) ==
    CASE channel = "get_error" -> ErrChannelGet
      [] channel = "deleted" -> ErrUpdateChannelDeleted
      [] OTHER -> NoErr

\* Lines 515-534 with the four fields always taken from the client's post.
BuildNewPost_AlwaysOverlay(post, oldPost, safeUpdate, millis, millis2) ==
    LET p1 == IF oldPost.Message # post.Message
              THEN [oldPost EXCEPT !.Message = post.Message, !.EditAt = millis]
              ELSE oldPost
        p2 == [p1 EXCEPT !.IsPinned = post.IsPinned,
                         !.HasReactions = post.HasReactions,
                         !.FileIds = post.FileIds, !.Props = post.Props]
    IN  IF /\ p2.EditAt = oldPost.EditAt
           /\ \/ oldPost.FileIds # p2.FileIds
              \/ oldPost.Props.attachments # p2.Props.attachments
        THEN [p2 EXCEPT !.EditAt = millis2]
        ELSE p2

\* Lines 515-534: newPost, built from oldPost and the client's post.  millis
\* is GetMillis() at line 520, millis2 GetMillis() at line 533.
\* AttachmentsEqual compares the attachments in Props.
BuildNewPost(post, oldPost, safeUpdate, millis, millis2) ==
    LET p1 == IF oldPost.Message # post.Message
              THEN [oldPost EXCEPT !.Message = post.Message, !.EditAt = millis]
              ELSE oldPost
        p2 == IF ~safeUpdate
              THEN [p1 EXCEPT !.IsPinned = post.IsPinned,
                              !.HasReactions = post.HasReactions,
                              !.FileIds = post.FileIds, !.Props = post.Props]
              ELSE p1
    IN  IF /\ p2.EditAt = oldPost.EditAt
           /\ \/ oldPost.FileIds # p2.FileIds
              \/ oldPost.Props.attachments # p2.Props.attachments
        THEN [p2 EXCEPT !.EditAt = millis2]
        ELSE p2

\* Lines 529 and 536: newPost.Props is the map of the client's post, not a
\* copy of it, so what FillInPostProps(post, nil) does to that map shows in
\* newPost; a map FillInPostProps creates for a post without Props does not.
\* post is the client's post before line 536, filled the one after it.
NewPostAfterFill(newPost, post, filled, safeUpdate) ==
    IF ~safeUpdate /\ ~post.Props.isNil
    THEN [newPost EXCEPT !.Props = filled.Props]
    ELSE newPost

\* What a plugin's MessageWillBeUpdated(c, newPost, oldPost) returns:
\*   keep    (newPost, "")
\*   edit    (newPost with its own text, ""); reading a nil newPost fails in
\*           the plugin and the hook call yields the zero values (nil, "")
\*   revert  (oldPost, "")
\*   reject  (nil, "spam")
UpdateResponses == {"keep", "edit", "revert", "reject"}

MessageWillBeUpdated(resp, newPost, oldPost) ==
    CASE resp = "keep" -> [post |-> newPost, reason |-> ""]
      [] resp = "edit" ->
            [post |-> IF newPost = nil THEN nil ELSE [newPost EXCEPT !.Message = 2],
             reason |-> ""]
      [] resp = "revert" -> [post |-> oldPost, reason |-> ""]
      [] resp = "reject" -> [post |-> nil, reason |-> "spam"]

\* Lines 543-546: the callback UpdatePost hands to RunMultiPluginHook.  st
\* holds the captured variables newPost and rejectionReason (and, as
\* history, the responses of the plugins called); post is UpdatePost's
\* argument, which the callback's result tests.
MessageWillBeUpdatedHook(st, resp, post, oldPost) ==
    LET r == MessageWillBeUpdated(resp, st.newPost, oldPost)
    IN  [st |-> [newPost |-> r.post, rejectionReason |-> r.reason,
                 hist |-> Append(st.hist, resp)],
         cont |-> post # nil]

\* Environment.RunMultiPluginHook: the hooks in registration order, until
\* the callback returns false.
RECURSIVE RunWillBeUpdated(_, _, _, _, _)
RunWillBeUpdated(hooks, i, st, post, oldPost) ==
    IF i > Len(hooks) THEN st
    ELSE LET r == MessageWillBeUpdatedHook(st, hooks[i], post, oldPost)
         IN  IF r.cont THEN RunWillBeUpdated(hooks, i + 1, r.st, post, oldPost)
             ELSE r.st

\* The registered plugins implementing MessageWillBeUpdated, in order.
UpdateChains(n) == UNION {[1..m -> UpdateResponses] : m \in 0..n}

\* The fields of a post that UpdatePost reads from its argument.
Request(p) ==
    [Message |-> p.Message, IsPinned |-> p.IsPinned,
     HasReactions |-> p.HasReactions, FileIds |-> p.FileIds, Props |-> p.Props]

\* A PostPatch: each field is a pointer, <<>> when nil and <<v>> when set.
Patches == [Message : {<<>>, <<1>>}, IsPinned : {<<>>, <<TRUE>>}]

\* Post.Patch: the fields the patch sets replace those of the post.
Patch(post, patch) ==
    [post EXCEPT !.Message = IF patch.Message = <<>> THEN @ ELSE patch.Message[1],
                 !.IsPinned = IF patch.IsPinned = <<>> THEN @ ELSE patch.IsPinned[1]]

\* A caller is between two calls.
UpdateIdle(u) == upd.call[u].pc \in {"idle", "done"}

\* Lines 475-504, the start of UpdatePost for c0, a call with its arguments:
\* Store.Post().Get reads the stored post, and the checks up to the edit
\* time limit follow.  found is what the store finds under the post's id,
\* millis what GetMillis shows at line 500.  The value of upd after it.
UpdateGet(base, u, c0, found, license, limit, millis) ==
    LET oldPost == base.stored
        e == UpdateChecks(SanitizeProps(c0.post), oldPost, found, license, limit, millis)
        c1 == [c0 EXCEPT !.license = license, !.limit = limit, !.t = millis,
                         !.old = oldPost]
    IN  [base EXCEPT !.now = millis,
                     !.call[u] = IF e # NoErr
                                 THEN [c1 EXCEPT !.pc = "done", !.err = e]
                                 ELSE [c1 EXCEPT !.pc = "channel"]]

\* UpdatePost(post, safeUpdate) called by the API, lines 475-504; at most
\* max calls of the caller are followed.
UpdatePost(u, post, safeUpdate, found, license, limit, millis, max) ==
    /\ UpdateIdle(u)
    /\ upd.n[u] < max
    /\ millis >= upd.now
    /\ upd' = UpdateGet([upd EXCEPT !.n[u] = @ + 1], u,
                        [NoCall EXCEPT !.post = post, !.safeUpdate = safeUpdate],
                        found, license, limit, millis)
    /\ UNCHANGED <<now, cache, posts, call, okRet, fx, srch, del, asUser, att, thr>>

\* PatchPost lines 591-607: GetSinglePost reads the stored post, the channel
\* is loaded and must not be deleted, and the patch is applied to the post
\* read.
PatchPost(u, patch, getOk, channel, max) ==
    LET e == IF ~getOk THEN ErrPostGetSingle ELSE UpdateChannelChecks(channel)
        c0 == [NoCall EXCEPT !.patch = TRUE]
    IN  /\ UpdateIdle(u)
        /\ upd.n[u] < max
        /\ upd' = [upd EXCEPT
                     !.n[u] = @ + 1,
                     !.call[u] =
                        IF e = ErrUpdateChannelDeleted
                        THEN [c0 EXCEPT !.pc = "done", !.err = ErrPatchChannelDeleted]
                        ELSE IF e # NoErr
                        THEN [c0 EXCEPT !.pc = "done", !.err = e]
                        ELSE [c0 EXCEPT !.pc = "update",
                                        !.post = Request(Patch(upd.stored, patch))]]
        /\ UNCHANGED <<now, cache, posts, call, okRet, fx, srch, del, asUser, att, thr>>

\* PatchPost line 609: UpdatePost(post, false) with the patched post, lines
\* 475-504 of it.
PatchUpdate(u, found, license, limit, millis) ==
    /\ upd.call[u].pc = "update"
    /\ millis >= upd.now
    /\ upd' = UpdateGet(upd, u, upd.call[u], found, license, limit, millis)
    /\ UNCHANGED <<now, cache, posts, call, okRet, fx, srch, del, asUser, att, thr>>

\* Lines 506-538: the channel is loaded, newPost is built (GetMillis is read
\* at line 520 and at line 533) and FillInPostProps(post, nil) runs.
UpdateBuild(u, channel, mentions, millis, millis2) ==
    LET c == upd.call[u]
        sane == SanitizeProps(c.post)
        built == BuildNewPost(sane, c.old, c.safeUpdate, millis, millis2)
        filled == FillInPostProps(sane, mentions)
        newPost == NewPostAfterFill(built, sane, filled, c.safeUpdate)
    IN  /\ c.pc = "channel"
        /\ millis >= upd.now /\ millis2 >= millis
        /\ upd' = IF UpdateChannelChecks(channel) # NoErr
                  THEN [upd EXCEPT !.call[u] = [c EXCEPT !.pc = "done", !.err = UpdateChannelChecks(channel)]]
                  ELSE IF FillInPostPropsError(mentions) # NoErr
                  THEN [upd EXCEPT !.now = millis2,
                                   !.call[u] = [c EXCEPT !.pc = "done", !.err = FillInPostPropsError(mentions)]]
                  ELSE [upd EXCEPT !.now = millis2,
                                   !.call[u] = [c EXCEPT !.pc = "hooks", !.built = newPost, !.newPost = newPost]]
        /\ UNCHANGED <<now, cache, posts, call, okRet, fx, srch, del, asUser, att, thr>>

\* Lines 540-550: the plugin chain (when GetPluginsEnvironment() != nil) with
\* at most n plugins registered, and the rejection error built from
\* rejectionReason.
UpdateHooks(u, n) ==
    LET c == upd.call[u]
        st0 == [newPost |-> c.newPost, rejectionReason |-> "", hist |-> <<>>]
    IN  /\ c.pc = "hooks"
        /\ \E plugins \in BOOLEAN :
           \E hooks \in IF plugins THEN UpdateChains(n) ELSE {<<>>} :
              LET st == IF plugins
                        THEN RunWillBeUpdated(hooks, 1, st0, c.post, c.old)
                        ELSE st0
              IN  upd' = [upd EXCEPT !.call[u] =
                            IF plugins /\ st.newPost = nil
                            THEN [c EXCEPT !.pc = "done", !.newPost = nil,
                                           !.hist = st.hist,
                                           !.err = ErrUpdateRejected(st.rejectionReason)]
                            ELSE [c EXCEPT !.pc = "store", !.newPost = st.newPost,
                                           !.hist = st.hist]]
        /\ UNCHANGED <<now, cache, posts, call, okRet, fx, srch, del, asUser, att, thr>>

\* Lines 552-588: Store.Post().Update(newPost, oldPost) writes newPost under
\* the post's id, and UpdatePost returns the post written.
UpdateStore(u) ==
    LET c == upd.call[u]
    IN  /\ c.pc = "store"
        /\ \E updateOk \in BOOLEAN :
              upd' = IF updateOk
                     THEN [upd EXCEPT !.stored = c.newPost,
                                      !.call[u] = [c EXCEPT !.pc = "done", !.wrote = TRUE, !.rpost = c.newPost]]
                     ELSE [upd EXCEPT !.call[u] = [c EXCEPT !.pc = "done", !.wrote = TRUE, !.err = ErrUpdate]]
        /\ UNCHANGED <<now, cache, posts, call, okRet, fx, srch, del, asUser, att, thr>>

\* DeletePost line 834 for the stored post: Store.Post().Delete(postId,
\* GetMillis(), deleteByID) sets its DeleteAt.
UpdateDeleted(millis) ==
    /\ upd.stored.DeleteAt = 0
    /\ millis >= upd.now /\ millis > 0
    /\ upd' = [upd EXCEPT !.now = millis, !.stored.DeleteAt = millis]
    /\ UNCHANGED <<now, cache, posts, call, okRet, fx, srch, del, asUser, att, thr>>

(* ------------------- CreatePost: the files of the post ------------------ *)

\* The file ids a client can name, and the FileIds of a request.
Files == {"f1", "f2"}
FileIdLists == UNION {[1..n -> Files] : n \in 0..MaxFiles}

\* Lines 265-294: Store.Post().Save, which returns the post it was given
\* with its Id set; nothing up to line 294 writes FileIds.
AttachSave(fileIds, ok) ==
    /\ att.pc \in {"idle", "done"}
    /\ att' = IF ~ok
              THEN [NoAttach EXCEPT !.pc = "done", !.request = fileIds,
                                    !.err = ErrSave, !.ret = "error"]
              ELSE [NoAttach EXCEPT !.pc = IF Len(fileIds) > 0 THEN "attach"
                                           ELSE "prepare",
                                    !.request = fileIds, !.post = fileIds,
                                    !.stored = fileIds, !.log = <<"save">>]
    /\ UNCHANGED <<now, cache, posts, call, okRet, upd, fx, srch, del, asUser, thr>>

\* attachFilesToPost lines 319-327: one round of the loop over post.FileIds.
AttachToPost ==
    /\ att.pc = "attach"
    /\ att.i <= Len(att.post)
    /\ \E ok \in BOOLEAN :
        att' = [att EXCEPT !.i = @ + 1,
                           !.results = Append(@, ok),
                           !.attachedIds = IF ok THEN Append(@, att.post[att.i])
                                           ELSE @]
    /\ UNCHANGED <<now, cache, posts, call, okRet, upd, fx, srch, del, asUser, thr>>

\* Lines 329-338 with post.FileIds left as the request had it.
AttachFinish_KeepFileIds(overwriteOk) ==
    [att EXCEPT !.pc = "prepare", !.log = Append(@, "attached")]

\* attachFilesToPost lines 329-338 and CreatePost lines 297-303: when a
\* file could not be attached, post.FileIds becomes the attached ids and the
\* post is overwritten in the store; an error of Overwrite is assigned to
\* err and logged.
AttachFinish(overwriteOk) ==
    IF Len(att.post) # Len(att.attachedIds)
    THEN [att EXCEPT !.pc = "prepare", !.log = Append(@, "attached"),
                     !.post = att.attachedIds,
                     !.stored = IF overwriteOk THEN att.attachedIds ELSE @,
                     !.err = IF overwriteOk THEN NoErr ELSE ErrAttach]
    ELSE [att EXCEPT !.pc = "prepare", !.log = Append(@, "attached")]

AttachOverwrite ==
    /\ att.pc = "attach"
    /\ att.i > Len(att.post)
    /\ \E overwriteOk \in BOOLEAN : att' = AttachFinish(overwriteOk)
    /\ UNCHANGED <<now, cache, posts, call, okRet, upd, fx, srch, del, asUser, thr>>

\* Line 308: PreparePostForClient returns a copy of rpost, FileIds as they
\* are.
AttachPrepare ==
    /\ att.pc = "prepare"
    /\ att' = [att EXCEPT !.pc = "return", !.rpost = att.post,
                          !.log = Append(@, "prepare")]
    /\ UNCHANGED <<now, cache, posts, call, okRet, upd, fx, srch, del, asUser, thr>>

\* Lines 310-314: handlePostEvents and `return rpost, nil`.
AttachReturn ==
    /\ att.pc = "return"
    /\ att' = [att EXCEPT !.pc = "done", !.err = NoErr, !.ret = "post",
                          !.log = Append(@, "return")]
    /\ UNCHANGED <<now, cache, posts, call, okRet, upd, fx, srch, del, asUser, thr>>

(* ----------------- CreatePost: the fetch of the root thread ------------- *)

\* Line 168: make(chan store.StoreResult, 1).
ThreadCapacity == 1

\* Lines 164-174: for a post with a RootId the channel is made and the
\* goroutine started.  The goroutine of an earlier call has its own channel;
\* the next call is followed once it has ended.
ThreadStart(hasRoot, parentId) ==
    /\ thr.pc \in {"idle", "done"}
    /\ thr.fetch \in {"none", "done"}
    /\ hasRoot \/ parentId = ""
    /\ thr' = [NoThread EXCEPT !.pc = "user", !.rootId = hasRoot,
                               !.parentId = parentId,
                               !.fetch = IF hasRoot THEN "get" ELSE "none"]
    /\ UNCHANGED <<now, cache, posts, call, okRet, upd, fx, srch, del, asUser, att>>

\* Line 170, in the goroutine: Store.Post().Get(post.RootId) answers.
ThreadFetch ==
    /\ thr.fetch = "get"
    /\ \E t \in ThreadCases \ {"none"} :
        /\ t = "parent_missing" => thr.parentId = "other"
        /\ thr' = [thr EXCEPT !.fetch = "send", !.t = t]
    /\ UNCHANGED <<now, cache, posts, call, okRet, upd, fx, srch, del, asUser, att>>

\* Line 171 with an unbuffered channel: the send waits until CreatePost is
\* at its receive.
ThreadSend_Unbuffered ==
    /\ thr.fetch = "send"
    /\ thr.pc = "receive" /\ thr.pchan = <<>>
    /\ thr' = [thr EXCEPT !.fetch = "close", !.pchan = Append(@, thr.t)]
    /\ UNCHANGED <<now, cache, posts, call, okRet, upd, fx, srch, del, asUser, att>>

\* Line 171, in the goroutine: the result is sent, which waits while the
\* channel is full.
ThreadSend ==
    /\ thr.fetch = "send"
    /\ Len(thr.pchan) < ThreadCapacity
    /\ thr' = [thr EXCEPT !.fetch = "close", !.pchan = Append(@, thr.t)]
    /\ UNCHANGED <<now, cache, posts, call, okRet, upd, fx, srch, del, asUser, att>>

\* Line 172, in the goroutine: the channel is closed and the goroutine ends.
ThreadClose ==
    /\ thr.fetch = "close"
    /\ thr' = [thr EXCEPT !.fetch = "done", !.closed = TRUE]
    /\ UNCHANGED <<now, cache, posts, call, okRet, upd, fx, srch, del, asUser, att>>

\* Lines 176-183: the author lookup; its error is returned without a look
\* at the channel.
ThreadUser ==
    /\ thr.pc = "user"
    /\ \E userOk \in BOOLEAN :
        thr' = IF ~userOk
               THEN [thr EXCEPT !.pc = "done", !.err = ErrUserGet, !.ret = "error"]
               ELSE [thr EXCEPT !.pc = "policy"]
    /\ UNCHANGED <<now, cache, posts, call, okRet, upd, fx, srch, del, asUser, att>>

\* Lines 185-192: the read-only policy, which returns without a look at the
\* channel; a post without RootId has no channel to read.
ThreadPolicy ==
    /\ thr.pc = "policy"
    /\ \E p \in PolicyCases :
        thr' = IF TownSquareReadOnly(p)
               THEN [thr EXCEPT !.pc = "done", !.err = ErrReadOnly, !.ret = "error"]
               ELSE [thr EXCEPT !.pc = IF thr.rootId THEN "receive" ELSE "save"]
    /\ UNCHANGED <<now, cache, posts, call, okRet, upd, fx, srch, del, asUser, att>>

\* Lines 193-219: CreatePost waits for the result of the goroutine and
\* checks the thread.
ThreadReceive ==
    /\ thr.pc = "receive"
    /\ Len(thr.pchan) > 0
    /\ LET result == Head(thr.pchan)
           e == ThreadError(result)
       IN  thr' = IF e # NoErr
                  THEN [thr EXCEPT !.pc = "done", !.pchan = Tail(@),
                                   !.result = result, !.err = e, !.ret = "error"]
                  ELSE [thr EXCEPT !.pc = "save", !.pchan = Tail(@),
                                   !.result = result, !.validated = TRUE,
                                   !.parentId = IF @ = "" THEN "root" ELSE @]
    /\ UNCHANGED <<now, cache, posts, call, okRet, upd, fx, srch, del, asUser, att>>

\* Lines 221-268: the rest of the checks, the plugins and Store.Post().Save.
ThreadSave ==
    /\ thr.pc = "save"
    /\ \E e \in {NoErr, ErrFillProps, ErrRejected, ErrSave} :
        thr' = [thr EXCEPT !.pc = "done", !.err = e,
                           !.ret = IF e = NoErr THEN "saved" ELSE "error"]
    /\ UNCHANGED <<now, cache, posts, call, okRet, upd, fx, srch, del, asUser, att>>

(* --------------------------- CreatePostAsUser --------------------------- *)

Client == CHOOSE c \in Calls : TRUE

ErrDeletedChannel == "api.post.create_post.can_not_post_to_deleted.error"

\* The author of the posts, post.UserId.
Author == "author"

\* Lines 28-43: the error CreatePostAsUser returns before it calls
\* CreatePost, or NoErr.
AsUserChecks(channelOk, systemType, channelDeleted) ==
    IF ~channelOk THEN ErrInvalidParam
    ELSE IF systemType THEN ErrInvalidParam
    ELSE IF channelDeleted THEN ErrDeletedChannel
    ELSE NoErr

\* Lines 27-43: a request arrives; the CreatePost call of line 45 is next.
CreatePostAsUser(channelOk, systemType, channelDeleted) ==
    /\ asUser.pc \in {"idle", "done"}
    /\ call[Client].pc = "idle"
    /\ LET e == AsUserChecks(channelOk, systemType, channelDeleted)
           r == [NoAsUser EXCEPT !.posts0 = posts]
       IN  asUser' = IF e # NoErr
                     THEN [r EXCEPT !.pc = "done", !.err = e, !.ret = "error",
                                    !.status = StatusBadRequest]
                     ELSE [r EXCEPT !.pc = "create"]
    /\ call' = [call EXCEPT ![Client] = IdleCall]
    /\ UNCHANGED <<now, cache, posts, okRet, upd, fx, srch, del, att, thr>>

\* Lines 53-71 with the notice published for every error of CreatePost.
ReadOnlyNotice_Always(err, userOk) ==
    [err |-> err, events |-> <<[userId |-> Author, type |-> "ephemeral"]>>]

\* Lines 53-71: for the read-only error the author is looked up and, when
\* found, sent an ephemeral post (SendEphemeralPost lines 419-441: published
\* to userId, not saved).
ReadOnlyNotice(err, userOk) ==
    IF err # ErrReadOnly THEN [err |-> err, events |-> <<>>]
    ELSE IF ~userOk THEN [err |-> ErrUserGet, events |-> <<>>]
    ELSE [err |-> err,
          events |-> <<[userId |-> Author, type |-> "ephemeral"]>>]

\* Lines 45-86: CreatePost has returned.
CreatePostAsUserReturn ==
    /\ asUser.pc = "create"
    /\ call[Client].pc = "idle"
    /\ call[Client].ret # "none"
    /\ \E userOk \in BOOLEAN :
        LET r == call[Client]
            n == ReadOnlyNotice(r.err, userOk)
        IN  asUser' =
              IF r.ret \in {"ok", "found"}
              THEN [asUser EXCEPT !.pc = "done", !.ret = "post"]
              ELSE [asUser EXCEPT !.pc = "done", !.ret = "error",
                                  !.err = n.err, !.events = n.events,
                                  !.status = CreatePostAsUserStatus(n.err)]
    /\ UNCHANGED <<now, cache, posts, call, okRet, upd, fx, srch, del, att, thr>>

(* ------------------------------ DeletePost ------------------------------ *)

ErrDeleteChannelDeleted == "api.post.delete_post.can_not_delete_post_in_deleted.error"
ErrDelete == "store.sql_post.delete.app_error"

\* Lines 818-836: the error DeletePost returns before its cleanups, or NoErr.
DeleteChecks(getOk, channel, deleteOk) ==
    CASE ~getOk -> ErrPostGetSingle
      [] channel = "get_error" -> ErrChannelGet
      [] channel = "deleted" -> ErrDeleteChannelDeleted
      [] ~deleteOk -> ErrDelete
      [] OTHER -> NoErr

\* Lines 817-840: the lookups, the soft-delete and the deletion event.
DeletePost(getOk, channel, deleteOk, es, hasFiles) ==
    /\ del.pc = "idle"
    /\ LET e == DeleteChecks(getOk, channel, deleteOk)
       IN  del' = IF e # NoErr
                  THEN [del EXCEPT !.pc = "done", !.err = e, !.ret = "error"]
                  ELSE [del EXCEPT !.pc = "files", !.deleted = TRUE,
                                   !.es = es, !.hasFiles = hasFiles]
    /\ UNCHANGED <<now, cache, posts, call, okRet, upd, fx, srch, asUser, att, thr>>

\* Lines 842-844: the goroutine of DeletePostFiles is started.
DeleteGoFiles ==
    /\ del.pc = "files"
    /\ del' = [del EXCEPT !.pc = "flagged", !.files = "spawned"]
    /\ UNCHANGED <<now, cache, posts, call, okRet, upd, fx, srch, asUser, att, thr>>

\* Lines 845-847: the goroutine of DeleteFlaggedPosts is started.
DeleteGoFlagged ==
    /\ del.pc = "flagged"
    /\ del' = [del EXCEPT !.pc = "index", !.flagged = "spawned"]
    /\ UNCHANGED <<now, cache, posts, call, okRet, upd, fx, srch, asUser, att, thr>>

\* Lines 849-855: with search indexing enabled, the goroutine of
\* Elasticsearch.DeletePost is started.
DeleteGoIndex ==
    /\ del.pc = "index"
    /\ del' = [del EXCEPT !.pc = "return",
                          !.index = IF del.es THEN "spawned" ELSE "none"]
    /\ UNCHANGED <<now, cache, posts, call, okRet, upd, fx, srch, asUser, att, thr>>

\* Lines 857-859 with the failure of a cleanup that has ended returned.
DeleteReturn_SurfaceFailure ==
    /\ del.pc = "return"
    /\ del' = IF "failed" \in {del.files, del.flagged, del.index}
              THEN [del EXCEPT !.pc = "done", !.err = ErrDelete, !.ret = "error"]
              ELSE [del EXCEPT !.pc = "done", !.err = NoErr, !.ret = "post"]
    /\ UNCHANGED <<now, cache, posts, call, okRet, upd, fx, srch, asUser, att, thr>>

\* Lines 857-859: the cache invalidation and `return post, nil`.
DeleteReturn ==
    /\ del.pc = "return"
    /\ del' = [del EXCEPT !.pc = "done", !.err = NoErr, !.ret = "post"]
    /\ UNCHANGED <<now, cache, posts, call, okRet, upd, fx, srch, asUser, att, thr>>

\* Lines 869-877, in its goroutine: nothing to do without file ids; a
\* failure of FileInfo().DeleteForPost is logged.
DeletePostFiles ==
    /\ del.files = "spawned"
    /\ \E ok \in BOOLEAN :
        del' = [del EXCEPT !.files = IF ~del.hasFiles THEN "skipped"
                                      ELSE IF ok THEN "done" ELSE "failed"]
    /\ UNCHANGED <<now, cache, posts, call, okRet, upd, fx, srch, asUser, att, thr>>

\* Lines 862-867, in its goroutine: a failure is logged.
DeleteFlaggedPosts ==
    /\ del.flagged = "spawned"
    /\ \E ok \in BOOLEAN :
        del' = [del EXCEPT !.flagged = IF ok THEN "done" ELSE "failed"]
    /\ UNCHANGED <<now, cache, posts, call, okRet, upd, fx, srch, asUser, att, thr>>

\* Lines 850-854, in its goroutine: a failure is logged.
DeleteIndexPost ==
    /\ del.index = "spawned"
    /\ \E ok \in BOOLEAN :
        del' = [del EXCEPT !.index = IF ok THEN "done" ELSE "failed"]
    /\ UNCHANGED <<now, cache, posts, call, okRet, upd, fx, srch, asUser, att, thr>>

(* -------------------------------- search -------------------------------- *)

\* The posts the store holds for searches, with their CreateAt; two of them
\* were created at the same time.
SearchPostIds == {1, 2, 3}
CreateAtOf == [p \in SearchPostIds |-> IF p = 1 THEN 1 ELSE 2]

\* params.Terms of a specification: the wildcard or a term.
Terms == {"*", "a"}
ParamsLists == UNION {[1..n -> Terms] : n \in 0..MaxParams}

ErrSearchDisabled == "store.sql_post.search.disabled"
ErrSearch == "store.sql_post.search.app_error"

\* The lists of distinct posts.
PostOrders ==
    UNION {{q \in [1..n -> SearchPostIds] :
               \A i, j \in 1..n : i # j => q[i] # q[j]} :
           n \in 0..Cardinality(SearchPostIds)}

\* What Store.Post().Search returns to the goroutine of specification i: a
\* post list or an error.  from (history) is the specification.
NoResult == [Data |-> NilList, Err |-> NoErr, from |-> 0]
StoreResults(i, orders) ==
    [Data : [Order : orders], Err : {NoErr}, from : {i}]
    \cup {[Data |-> NilList, Err |-> ErrSearch, from |-> i]}

\* PostList.Extend(other): the posts of other not yet in the list are
\* appended in other's order.
RECURSIVE Extend(_, _, _)
Extend(o, other, i) ==
    IF i > Len(other.Order) THEN o
    ELSE IF \E j \in DOMAIN o.Order : o.Order[j] = other.Order[i]
    THEN Extend(o, other, i + 1)
    ELSE Extend([Order |-> Append(o.Order, other.Order[i])], other, i + 1)

\* The total ordering of posts by creation time, newest first: of two posts
\* of equal CreateAt the one that comes first is fixed by the posts (here by
\* their identifiers), not by the list they are in.
Newer(a, b) ==
    \/ CreateAtOf[a] > CreateAtOf[b]
    \/ CreateAtOf[a] = CreateAtOf[b] /\ a > b

\* One round of the sort: x is placed behind the posts that are newer.
InsertPost(sorted, x) ==
    LET ahead == {i \in DOMAIN sorted : Newer(sorted[i], x)}
        k == Cardinality(ahead)
    IN  SubSeq(sorted, 1, k) \o <<x>> \o SubSeq(sorted, k + 1, Len(sorted))

RECURSIVE InsertionSort(_, _, _)
InsertionSort(order, i, sorted) ==
    IF i > Len(order) THEN sorted
    ELSE InsertionSort(order, i + 1, InsertPost(sorted, order[i]))

\* PostList.SortByCreateAt(): the ids in the total ordering by creation
\* time, newest first.
SortByCreateAt(o) == {[Order |-> InsertionSort(o.Order, 1, <<>>)]}

\* The loop of lines 941-947 ended after the first result.
RECURSIVE Merge_FirstOnly(_, _, _)
Merge_FirstOnly(pchan, i, list) ==
    IF i > Len(pchan) \/ i > 1 THEN [posts |-> list, err |-> NoErr, from |-> 0]
    ELSE IF pchan[i].Err # NoErr
    THEN [posts |-> NilList, err |-> pchan[i].Err, from |-> pchan[i].from]
    ELSE Merge_FirstOnly(pchan, i + 1, Extend(list, pchan[i].Data, 1))

\* The loop of lines 941-947 without the test of result.Err.
RECURSIVE Merge_SkipErrors(_, _, _)
Merge_SkipErrors(pchan, i, list) ==
    IF i > Len(pchan) THEN [posts |-> list, err |-> NoErr, from |-> 0]
    ELSE Merge_SkipErrors(pchan, i + 1,
                          IF pchan[i].Err # NoErr THEN list
                          ELSE Extend(list, pchan[i].Data, 1))

\* Lines 939-947: the results are read from the closed channel in the order
\* they were sent; the first error ends the function, otherwise the lists are
\* merged.
RECURSIVE Merge(_, _, _)
Merge(pchan, i, list) ==
    IF i > Len(pchan) THEN [posts |-> list, err |-> NoErr, from |-> 0]
    ELSE IF pchan[i].Err # NoErr
    THEN [posts |-> NilList, err |-> pchan[i].Err, from |-> pchan[i].from]
    ELSE Merge(pchan, i + 1, Extend(list, pchan[i].Data, 1))

\* Lines 939-950 without the call of SortByCreateAt.
Aggregate_NoSort(pchan) ==
    LET m == Merge(pchan, 1, NewPostList)
    IN  {m}

\* Lines 939-950: what searchPostsInTeam can return for the results in pchan.
Aggregate(pchan) ==
    LET m == Merge(pchan, 1, NewPostList)
    IN  IF m.err # NoErr THEN {m}
        ELSE {[m EXCEPT !.posts = o] : o \in SortByCreateAt(m.posts)}

\* Line 919 with an unbuffered channel.
Capacity_Unbuffered(paramsList) == 0

\* Line 919: the channel of the results holds as many results as there are
\* specifications.
Capacity(paramsList) == Len(paramsList)

\* Lines 917-934 without the test of lines 923-925.
StartQueries_All(r, paramsList) ==
    [r EXCEPT !.pc = "queries", !.paramsList = paramsList, !.ran = TRUE,
              !.running = DOMAIN paramsList,
              !.modified = DOMAIN paramsList,
              !.got = [i \in DOMAIN paramsList |-> NoResult]]

\* Lines 917-934: searchPostsInTeam applies modifierFun to each specification
\* that is not the wildcard and starts one goroutine for it.
StartQueries(r, paramsList) ==
    [r EXCEPT !.pc = "queries", !.paramsList = paramsList, !.ran = TRUE,
              !.running = {i \in DOMAIN paramsList : paramsList[i] # "*"},
              !.modified = {i \in DOMAIN paramsList : paramsList[i] # "*"},
              !.got = [i \in DOMAIN paramsList |-> NoResult]]

\* Lines 976-983.
SearchPostsInTeam(paramsList, enablePostSearch) ==
    /\ srch.pc = "idle"
    /\ srch' = IF ~enablePostSearch
               THEN [NoSearch EXCEPT !.pc = "done", !.caller = "team",
                                     !.enablePostSearch = FALSE,
                                     !.err = ErrSearchDisabled, !.ret = "error"]
               ELSE StartQueries([NoSearch EXCEPT !.caller = "team"], paramsList)
    /\ UNCHANGED <<now, cache, posts, call, okRet, upd, fx, del, asUser, att, thr>>

\* Lines 985-1038: what esSearchPostsInTeamForUser returns (results or an
\* error), the specifications it hands to Elasticsearch.SearchPosts
\* (finalParamsList) and the posts of its results.  Without a specification
\* other than the wildcard it returns empty results and asks nobody.
esSearchPostsInTeamForUser(paramsList, channelsOk, searchOk, anyIds, postsOk) ==
    LET final == {i \in DOMAIN paramsList : paramsList[i] # "*"}
        error == [ret |-> "error", asked |-> {}, posts |-> NilList]
    IN  IF final = {}
        THEN [ret |-> "ok", asked |-> {}, posts |-> NewPostList]
        ELSE IF ~channelsOk THEN error
        ELSE IF ~searchOk THEN [error EXCEPT !.asked = final]
        ELSE IF anyIds /\ ~postsOk THEN [error EXCEPT !.asked = final]
        ELSE [ret |-> "ok", asked |-> final,
              posts |-> IF anyIds THEN [Order |-> <<1>>] ELSE NewPostList]

EsOutcomes(paramsList) ==
    {esSearchPostsInTeamForUser(paramsList, c, q, a, g) :
        c \in BOOLEAN, q \in BOOLEAN, a \in BOOLEAN, g \in BOOLEAN}

\* The filter fields of a parsed specification (ExcludedChannels and
\* ExcludedUsers are rewritten as InChannels and FromUsers are) and its OR
\* flag: no filter, "in:town from:alice", or "in:@bob".
NoFilter == [InChannels |-> <<>>, FromUsers |-> <<>>, OrTerms |-> FALSE]
Filters ==
    {NoFilter,
     [InChannels |-> <<"town">>, FromUsers |-> <<"alice">>, OrTerms |-> FALSE],
     [InChannels |-> <<"@bob">>, FromUsers |-> <<>>, OrTerms |-> FALSE]}

\* The channels and users the filters name: Id and Name of the channel that
\* parseAndFetchChannelIdByNameFromInFilter finds, Id of the user.
IdOf == [n \in {"town", "@bob", "alice"} |->
            IF n = "town" THEN "id_town"
            ELSE IF n = "@bob" THEN "id_dm" ELSE "id_alice"]
NameOf == [n \in {"town", "@bob"} |-> IF n = "town" THEN "town" ELSE "dm_bob"]

\* Lines 990-999 with 953-974: esSearchPostsInTeamForUser sets the OR flag
\* of every specification and, unless its term is the wildcard, replaces in
\* place each channel name and user name it can look up by the id.
EsRewrite(f, term, isOrSearch, lookupOk) ==
    LET ids(names) == [i \in DOMAIN names |->
                          IF lookupOk /\ names[i] \in DOMAIN IdOf
                          THEN IdOf[names[i]] ELSE names[i]]
    IN  IF term = "*" THEN [f EXCEPT !.OrTerms = isOrSearch]
        ELSE [InChannels |-> ids(f.InChannels), FromUsers |-> ids(f.FromUsers),
              OrTerms |-> isOrSearch]

\* Lines 1064-1086: the modifier of the fallback sets the OR flag and
\* replaces each channel filter that begins with "@" by the name of the
\* channel found for it.
ModifierFun(f, isOrSearch, lookupOk) ==
    [f EXCEPT !.OrTerms = isOrSearch,
              !.InChannels = [i \in DOMAIN @ |->
                                 IF @[i] = "@bob" /\ lookupOk
                                 THEN NameOf[@[i]] ELSE @[i]]]

\* Lines 1056-1063 with the aggregator called for every page.
Fallback_AnyPage(r, paramsList, page) ==
    StartQueries(r, paramsList)

\* Lines 1056-1063: without a result of the index backend, a later page is
\* empty and the first page is what the aggregator finds.
Fallback(r, paramsList, page) ==
    IF page > 0
    THEN [r EXCEPT !.pc = "done", !.ret = "empty", !.posts = NewPostList]
    ELSE StartQueries(r, paramsList)

\* Lines 1040-1094 up to the queries of the aggregator (the configuration
\* does not change during the call).  The index backend, when enabled,
\* works on the specifications the fallback is given afterwards.
SearchPostsInTeamForUser(paramsList, enablePostSearch, esEnabled, page, filter, isOrSearch, lookupOk) ==
    /\ srch.pc = "idle"
    /\ \E o \in IF esEnabled /\ enablePostSearch
                THEN EsOutcomes(paramsList)
                ELSE {[ret |-> "none", asked |-> {}, posts |-> NilList]} :
        LET parsed == [i \in DOMAIN paramsList |-> filter]
            filters == IF o.ret = "none" THEN parsed
                       ELSE [i \in DOMAIN paramsList |->
                               EsRewrite(parsed[i], paramsList[i],
                                         isOrSearch, lookupOk)]
            r == [NoSearch EXCEPT !.caller = "user", !.page = page,
                                  !.paramsList = paramsList,
                                  !.es = o.ret, !.asked = o.asked,
                                  !.esEnabled = esEnabled,
                                  !.enablePostSearch = enablePostSearch,
                                  !.request = parsed, !.filters = filters,
                                  !.isOrSearch = isOrSearch,
                                  !.lookupOk = lookupOk]
            q == Fallback(r, paramsList, page)
            modified == [i \in DOMAIN paramsList |->
                           IF i \in q.modified
                           THEN ModifierFun(filters[i], isOrSearch, lookupOk)
                           ELSE filters[i]]
        IN  srch' =
              IF ~enablePostSearch
              THEN [r EXCEPT !.pc = "done", !.err = ErrSearchDisabled,
                             !.ret = "error"]
              ELSE IF o.ret = "ok"
              THEN [r EXCEPT !.pc = "done", !.ret = "index", !.posts = o.posts]
              ELSE IF q.ran
              THEN [q EXCEPT !.filters = modified,
                             !.sent = [i \in q.modified |-> modified[i]]]
              ELSE q
    /\ UNCHANGED <<now, cache, posts, call, okRet, upd, fx, del, asUser, att, thr>>

\* Lines 929-933: the goroutine of one specification gets its result from
\* the store and sends it to the channel, which takes it while it has room
\* (nothing is received before line 941); the deferred wg.Done follows.
SearchQuery(orders) ==
    /\ srch.pc = "queries"
    /\ Len(srch.pchan) < Capacity(srch.paramsList)
    /\ \E i \in srch.running : \E r \in StoreResults(i, orders) :
        srch' = [srch EXCEPT !.running = @ \ {i},
                             !.pchan = Append(@, r),
                             !.got[i] = r]
    /\ UNCHANGED <<now, cache, posts, call, okRet, upd, fx, del, asUser, att, thr>>

\* Lines 936-950 (and 1087-1094 for SearchPostsInTeamForUser): all
\* goroutines are done, the channel is closed and read.
SearchCollect ==
    /\ srch.pc = "queries"
    /\ srch.running = {}
    /\ \E m \in Aggregate(srch.pchan) :
        srch' = [srch EXCEPT !.pc = "done", !.posts = m.posts, !.err = m.err,
                             !.from = m.from,
                             !.ret = IF m.err # NoErr THEN "error" ELSE "posts"]
    /\ UNCHANGED <<now, cache, posts, call, okRet, upd, fx, del, asUser, att, thr>>

(* ------------------------------- time ---------------------------------- *)

Tick ==
    /\ \E d \in TickSteps :
        /\ now + d <= MaxTime
        /\ now' = now + d
    /\ UNCHANGED <<cache, posts, call, okRet, upd, fx, srch, del, asUser, att, thr>>

(* --------------------------- specifications ---------------------------- *)

\* Calls whose post passes validation, with at most one plugin, which lets
\* the post pass, replaces it or rejects it with a reason of its own.
Next ==
    \/ \E c \in Calls : Dedup(c, Keys)
    \/ \E c \in Calls : PreCommit(c, PlainChains(1), FALSE, PlainAnswers)
    \/ \E c \in Calls : Save(c, MaxPosts)
    \/ \E c \in Calls : Finalize(c, BOOLEAN)
    \/ \E c \in Calls : IndexPost(c)
    \/ \E c \in Calls : Defer(c)
    \/ \E c \in Calls : Exit(c)

Spec == Init /\ [][Next]_vars

\* As Next, every call carrying the pending post id, with the clock.
NextTTL ==
    \/ \E c \in Calls : Dedup(c, Tokens)
    \/ \E c \in Calls : PreCommit(c, PlainChains(1), FALSE, PlainAnswers)
    \/ \E c \in Calls : Save(c, MaxPosts)
    \/ \E c \in Calls : Finalize(c, BOOLEAN)
    \/ \E c \in Calls : IndexPost(c)
    \/ \E c \in Calls : Defer(c)
    \/ \E c \in Calls : Exit(c)
    \/ Tick

SpecTTL == Init /\ [][NextTTL]_vars

NextSeq ==
    \/ Dedup(Client, Keys)
    \/ PreCommit(Client, Chains(MaxPlugins), TRUE, Answers)
    \/ Save(Client, SeqPosts)
    \/ Finalize(Client, {FALSE})
    \/ Defer(Client)
    \/ Exit(Client)

SpecSeq == Init /\ [][NextSeq]_vars

\* The patch of the other caller: it pins the post.
PinPatch == [Message |-> <<>>, IsPinned |-> <<TRUE>>]

\* The steps of the other caller, interleaved with those of the main one:
\* one PatchPost(PinPatch) call that meets no error and no plugin, within
\* the millisecond the clock shows.
OtherSteps ==
    \/ PatchPost(Other, PinPatch, TRUE, "ok", 1)
    \/ PatchUpdate(Other, "ok", FALSE, -1, upd.now)
    \/ UpdateBuild(Other, "ok", "none", upd.now, upd.now)
    \/ UpdateHooks(Other, 0)
    \/ UpdateStore(Other)

\* UpdatePost calls on a server without a license, all within one
\* millisecond, their steps interleaved with those of the other caller.
NextUpdate ==
    \/ \E post \in UpdateRequests, safeUpdate \in BOOLEAN, found \in OldPostCases :
           UpdatePost(Main, post, safeUpdate, found, FALSE, -1, 1, MaxUpdates)
    \/ \E channel \in ChannelCases, mentions \in MentionCases :
           UpdateBuild(Main, channel, mentions, 1, 1)
    \/ UpdateHooks(Main, MaxPlugins)
    \/ UpdateStore(Main)
    \/ OtherSteps
    \/ UpdateDeleted(1)

SpecUpdate == Init /\ [][NextUpdate]_vars

\* UpdatePost calls with at most one plugin: edits of the message under
\* every license, time limit and time, and edits of the other fields
\* without a license; their steps are interleaved with those of the other
\* caller.
NextEdit ==
    \/ \E post \in MessageRequests, safeUpdate \in BOOLEAN, license \in BOOLEAN, limit \in {-1, EditLimit}, millis \in EditTimes, found \in OldPostCases :
           UpdatePost(Main, post, safeUpdate, found, license, limit, millis, EditCalls)
    \/ \E post \in EditRequests, safeUpdate \in BOOLEAN, millis \in EditTimes, found \in OldPostCases :
           UpdatePost(Main, post, safeUpdate, found, FALSE, -1, millis, EditCalls)
    \/ \E channel \in ChannelCases, mentions \in MentionCases, millis \in EditTimes, millis2 \in EditTimes :
           UpdateBuild(Main, channel, mentions, millis, millis2)
    \/ UpdateHooks(Main, 1)
    \/ UpdateStore(Main)
    \/ OtherSteps
    \/ \E millis \in EditTimes : UpdateDeleted(millis)

SpecEdit == Init /\ [][NextEdit]_vars

NextEffects ==
    \/ FxSave
    \/ FxDispatch
    \/ FxAttach
    \/ FxPrepare
    \/ FxTeam
    \/ FxInvalidate
    \/ FxNotify
    \/ FxSpawn
    \/ FxReturn
    \/ FxExit
    \/ FxHook
    \/ FxIndex
    \/ FxAuto
    \/ FxWebhook

SpecEffects == Init /\ [][NextEffects]_vars

\* The caller has the result of the search call; the next call can be made.
SearchReturn ==
    /\ srch.pc = "done"
    /\ srch' = NoSearch
    /\ UNCHANGED <<now, cache, posts, call, okRet, upd, fx, del, asUser, att, thr>>

NextAttach ==
    \/ \E fileIds \in FileIdLists, ok \in BOOLEAN : AttachSave(fileIds, ok)
    \/ AttachToPost
    \/ AttachOverwrite
    \/ AttachPrepare
    \/ AttachReturn

SpecAttach == Init /\ [][NextAttach]_vars

\* CreatePost calls in sequence, each with its fetch goroutine, which the
\* scheduler runs whenever it can take a step.
NextThread ==
    \/ \E hasRoot \in BOOLEAN, parentId \in {"", "root", "other"} :
           ThreadStart(hasRoot, parentId)
    \/ ThreadFetch
    \/ ThreadSend
    \/ ThreadClose
    \/ ThreadUser
    \/ ThreadPolicy
    \/ ThreadReceive
    \/ ThreadSave

SpecThread ==
    /\ Init /\ [][NextThread]_vars
    /\ WF_vars(ThreadFetch) /\ WF_vars(ThreadSend) /\ WF_vars(ThreadClose)

\* One client calling CreatePostAsUser, one call after the other.
NextAsUser ==
    \/ \E channelOk \in BOOLEAN, systemType \in BOOLEAN, channelDeleted \in BOOLEAN :
           CreatePostAsUser(channelOk, systemType, channelDeleted)
    \/ asUser.pc = "create" /\ call[Client].ret = "none" /\ Dedup(Client, Keys)
    \/ PreCommit(Client, Chains(1), TRUE, Answers)
    \/ Save(Client, SeqPosts)
    \/ Finalize(Client, {FALSE})
    \/ Defer(Client)
    \/ Exit(Client)
    \/ CreatePostAsUserReturn

SpecAsUser == Init /\ [][NextAsUser]_vars

NextDelete ==
    \/ \E getOk \in BOOLEAN, channel \in {"get_error", "deleted", "ok"},
          deleteOk \in BOOLEAN, es \in BOOLEAN, hasFiles \in BOOLEAN :
           DeletePost(getOk, channel, deleteOk, es, hasFiles)
    \/ DeleteGoFiles
    \/ DeleteGoFlagged
    \/ DeleteGoIndex
    \/ DeleteReturn
    \/ DeletePostFiles
    \/ DeleteFlaggedPosts
    \/ DeleteIndexPost

SpecDelete == Init /\ [][NextDelete]_vars

NextSearch ==
    \/ \E paramsList \in ParamsLists, enablePostSearch \in BOOLEAN :
           SearchPostsInTeam(paramsList, enablePostSearch)
    \/ \E paramsList \in ParamsLists, enablePostSearch \in BOOLEAN,
          esEnabled \in BOOLEAN, page \in {0, 1} :
           SearchPostsInTeamForUser(paramsList, enablePostSearch, esEnabled,
                                    page, NoFilter, FALSE, TRUE)
    \/ SearchQuery(PostOrders)
    \/ SearchCollect
    \/ SearchReturn

SpecSearch == Init /\ [][NextSearch]_vars

\* The aggregator called directly, each query finding one of a few lists or
\* an error; the scheduler runs every goroutine that can take a step, and
\* the store answers every query.
FewOrders == {<<>>, <<1>>, <<3>>, <<2, 1>>}

NextSearchLive ==
    \/ \E paramsList \in ParamsLists, enablePostSearch \in BOOLEAN :
           SearchPostsInTeam(paramsList, enablePostSearch)
    \/ SearchQuery(FewOrders)
    \/ SearchCollect
    \/ SearchReturn

SpecSearchLive ==
    /\ Init /\ [][NextSearchLive]_vars
    /\ WF_vars(SearchQuery(FewOrders)) /\ WF_vars(SearchCollect)

\* The first page of SearchPostsInTeamForUser with post search enabled, the
\* specifications with filters.
NextFallback ==
    \/ \E paramsList \in ParamsLists, esEnabled \in BOOLEAN, filter \in Filters,
          isOrSearch \in BOOLEAN, lookupOk \in BOOLEAN :
           SearchPostsInTeamForUser(paramsList, TRUE, esEnabled, 0,
                                    filter, isOrSearch, lookupOk)
    \/ SearchQuery(FewOrders)
    \/ SearchCollect
    \/ SearchReturn

SpecFallback == Init /\ [][NextFallback]_vars

(* ------------------------------- claims -------------------------------- *)

\* A step in which the request slot c takes a new CreatePost call through
\* deduplicateCreatePost (the only step an idle slot takes).
DedupStep(c) ==
    /\ call[c].pc = "idle"
    /\ call[c].idx # "spawned"
    /\ call'[c] # call[c]

SavedFor(k) == {i \in DOMAIN posts : posts[i].by = k}

Live(k) == cache[k] # NoEntry /\ ~Expired(cache[k], now)

\* C1: of the CreatePost calls that carry one non-empty pending post id, at
\* most one performs a successful Store.Post().Save (no time passes in Spec,
\* so all calls are inside the cache window).
C1_AtMostOneSave == \A k \in Tokens : Cardinality(SavedFor(k)) <= 1

\* C2: once a CreatePost with token k has returned success with post id p, a
\* later call with k (inside the cache window) is not answered 'pending' and
\* does not create a post: it gets the post with id p (or the store lookup
\* of p fails).
C2_RetrySeesSavedPost ==
    [][\A c \in Calls :
        (DedupStep(c) /\ call'[c].token \in Tokens /\ okRet[call'[c].token] # 0)
        => \/ call'[c].ret = "found" /\ call'[c].savedPost = okRet[call'[c].token]
           \/ call'[c].ret = "failed_to_get"]_vars

\* What a call that found a final post id does not do: it has returned, and
\* no plugin hook ran, no Save was called, no index goroutine was started,
\* the store and the cache are as before.
NoWritePipeline(c) ==
    /\ call'[c].pc = "idle"
    /\ ~call'[c].ran /\ ~call'[c].wrote /\ call'[c].idx = "none"
    /\ posts' = posts
    /\ cache' = cache

FindsFinal(c) ==
    /\ DedupStep(c)
    /\ call'[c].token \in Tokens
    /\ Live(call'[c].token)
    /\ cache[call'[c].token].value # unknownPostId

\* C3 as stated: a CreatePost that finds a final post id in the cache for its
\* token returns the post with that id and runs none of the write pipeline.
C3_FoundAlwaysReturnsPost ==
    [][\A c \in Calls :
        FindsFinal(c)
        => /\ NoWritePipeline(c)
           /\ call'[c].ret = "found" /\ call'[c].err = NoErr
           /\ call'[c].savedPost = cache[call'[c].token].value]_vars

\* C3 amended: a CreatePost that finds a final post id in the cache for its
\* token returns the post with that id, or the 'failed_to_get' error when the
\* store lookup of that id fails; either way it runs none of the write
\* pipeline.
C3_FoundReturnsWithoutWrite ==
    [][\A c \in Calls :
        FindsFinal(c)
        => /\ NoWritePipeline(c)
           /\ \/ /\ call'[c].ret = "found" /\ call'[c].err = NoErr
                 /\ call'[c].savedPost = cache[call'[c].token].value
              \/ /\ call'[c].ret = "failed_to_get" /\ call'[c].err = ErrFailedToGet
                 /\ call'[c].savedPost = 0]_vars

C3_Witness ==
    \E c \in Calls :
        /\ call[c].pc = "idle" /\ call[c].ret = "found"
        /\ call[c].savedPost = cache[call[c].token].value
        /\ posts[call[c].savedPost].by = call[c].token

\* C4: a CreatePost whose token is held in the cache as the in-flight
\* sentinel fails with the 'pending' error, calls no Save, and leaves the
\* cache (the owner's entry included) as it was.
C4_PendingLeavesCache ==
    [][\A c \in Calls :
        (/\ DedupStep(c)
         /\ call'[c].token \in Tokens
         /\ Live(call'[c].token)
         /\ cache[call'[c].token].value = unknownPostId)
        => /\ call'[c].ret = "pending" /\ call'[c].err = ErrPending
           /\ call'[c].pc = "idle" /\ ~call'[c].wrote
           /\ posts' = posts
           /\ cache' = cache]_vars

C4_Witness ==
    \E c, d \in Calls :
        /\ c # d
        /\ call[c].pc = "idle" /\ call[c].ret = "pending"
        /\ call[d].pc \in {"pre", "save", "finalize"}
        /\ call[d].token = call[c].token
        /\ cache[call[c].token].value = unknownPostId

\* C5: when a CreatePost that registered its non-empty token k returns
\* success, the deferred function has left the cache mapping k to the id of
\* the saved post.
C5_SuccessFinalizesToken ==
    [][\A c \in Calls :
        (/\ call[c].pc = "exit" /\ call'[c].pc = "idle"
         /\ call[c].token \in Tokens
         /\ call[c].err = NoErr)
        => call[c].snap = call[c].savedPost]_vars

\* C6: when a CreatePost that registered its non-empty token k returns an
\* error, the deferred function has left the cache without an entry for k.
C6_ErrorReleasesToken ==
    \A c \in Calls :
        (/\ call[c].token \in Tokens
         /\ \/ call[c].pc = "idle" /\ call[c].ret = "error" /\ call[c].snap # -2
            \/ call[c].pc = "exit" /\ call[c].err # NoErr)
        => call[c].snap = -1

\* A call that takes its token over from an entry whose time has run out: it
\* becomes the owner and the cache holds a new sentinel for the token.
TakesOver(c) ==
    /\ call'[c].ret = "owner" /\ call'[c].pc = "pre"
    /\ cache'[call'[c].token] =
           [value |-> unknownPostId, expires |-> now + PENDING_POST_IDS_CACHE_TTL,
            born |-> now]

\* C7: an entry first inserted at T is gone at T+31s, whether or not it was
\* finalized in between: a CreatePost with its token at or after T+31s
\* starts a fresh write.
C7_ExpiresAfterFirstInsertion ==
    [][\A c \in Calls :
        (/\ DedupStep(c)
         /\ call'[c].token \in Tokens
         /\ cache[call'[c].token] # NoEntry
         /\ now >= cache[call'[c].token].born + PENDING_POST_IDS_CACHE_TTL + 1)
        => TakesOver(c)]_vars

\* A call took over an entry that held a final post id, and has written its
\* own post.
C7_Witness ==
    \E c \in Calls :
        /\ call[c].over > 0 /\ call[c].pc = "finalize"
        /\ call[c].rpost # call[c].over
        /\ posts[call[c].over].by = call[c].token

\* C8: the 'pending' answer for a token ends with the TTL of its sentinel:
\* 'pending' is only answered within 30s of the sentinel's insertion, and a
\* CreatePost arriving later, the sentinel still in the cache, becomes the
\* owner instead.
C8_PendingEndsWithTTL ==
    [][\A c \in Calls :
        (DedupStep(c) /\ call'[c].token \in Tokens)
        => LET e == cache[call'[c].token]
           IN  /\ call'[c].ret = "pending"
                    => /\ e.value = unknownPostId
                       /\ now <= e.born + PENDING_POST_IDS_CACHE_TTL
               /\ (/\ e # NoEntry /\ e.value = unknownPostId
                   /\ now > e.born + PENDING_POST_IDS_CACHE_TTL)
                    => TakesOver(c)]_vars

\* A call became the owner over a sentinel whose owner is still in flight.
C8_Witness ==
    \E c, d \in Calls :
        /\ c # d
        /\ call[c].over = unknownPostId /\ call[c].pc = "pre"
        /\ call[d].pc \in {"pre", "save", "finalize"}
        /\ call[d].token = call[c].token

\* The first plugin of a chain that rejects (0: none).
FirstReject(h) ==
    IF \E i \in 1..Len(h) : h[i].reason # ""
    THEN CHOOSE i \in 1..Len(h) :
            /\ h[i].reason # ""
            /\ \A j \in 1..(i - 1) : h[j].reason = ""
    ELSE 0

\* The working post after the plugins before i: the last replacement among
\* them, or the client's post.
Working(h, i, client) ==
    LET R == {j \in 1..(i - 1) : h[j].post # NoPost}
    IN  IF R = {} THEN client ELSE h[CHOOSE j \in R : \A l \in R : l <= j].post

\* C9: in the MessageWillBePosted chain of CreatePost the first plugin that
\* gives a rejection reason ends the chain (no later plugin is called, Save is
\* not called, CreatePost returns a bad-request error), and a replacement post
\* is what every later plugin is given and what is saved.
C9_PreCommitChain ==
    \A c \in Calls :
        call[c].ran =>
            LET h == call[c].chain
                j == FirstReject(h)
                n == IF j = 0 THEN Len(h) ELSE j
                client == ClientPost(call[c].token)
            IN  /\ Len(call[c].seen) = n
                /\ \A i \in 1..n : call[c].seen[i] = Working(h, i, client)
                /\ j # 0 =>
                     /\ call[c].pc = "idle" /\ call[c].ret = "error"
                     /\ call[c].err \in {ErrRejected, DismissPostError}
                     /\ Status(call[c].err) = StatusBadRequest
                     /\ ~call[c].wrote
                /\ j = 0 =>
                     /\ call[c].pc = "idle" => call[c].err = ErrSave
                     /\ call[c].pc # "idle" =>
                            call[c].post = Working(h, Len(h) + 1, client)
                     /\ call[c].pc \in {"finalize", "defer", "exit"} =>
                            posts[call[c].rpost].body =
                                Working(h, Len(h) + 1, client).body

\* Plugin 1 replaced the post, plugin 2 was given the replacement and
\* rejected it.
C9_Witness ==
    \E c \in Calls :
        /\ call[c].ran /\ Len(call[c].chain) = 2
        /\ call[c].chain[1].post # NoPost /\ call[c].chain[1].reason = ""
        /\ call[c].chain[2].reason # ""
        /\ call[c].seen = <<ClientPost(call[c].token), call[c].chain[1].post>>
        /\ call[c].ret = "error"

(* C10: in UpdatePost, when any plugin of the MessageWillBeUpdated chain   *)
(* rejects (returns no post), Store.Post().Update is not called and an     *)
(* error is returned, whatever the plugins after it return.                *)
C10_RejectionAbortsUpdate ==
    \A u \in Updaters :
        (/\ upd.call[u].pc = "done"
         /\ \E i \in 1..Len(upd.call[u].hist) : upd.call[u].hist[i] = "reject")
            => ~upd.call[u].wrote /\ upd.call[u].err # NoErr

\* C11: a failure of the search-index goroutine of a committed create never
\* changes what CreatePost returns (the saved post, no error) and never makes
\* the deferred function remove the cache entry of the request's pending
\* post id, however the goroutine interleaves with the return and the
\* deferred function.
C11_IndexFailureInvisible ==
    [][\A c \in Calls :
        /\ (/\ call[c].pc = "defer" /\ call'[c].pc = "exit"
            /\ call[c].post.pending # "")
           => cache'[call[c].post.pending].value = call[c].savedPost
        /\ (call[c].pc = "exit" /\ call'[c].pc = "idle")
           => call'[c].ret = "ok"]_vars

\* The positions of effect e in the log.
At(e) == {i \in DOMAIN fx.log : fx.log[i] = e}

\* The effects that run detached from the request.
Detached == {"index", "index_failed", "auto", "webhook"}

\* C12: within one CreatePost the store write comes before the post-commit
\* hooks (MessageHasBeenPosted) are invoked, and the hooks are invoked before
\* any detached side effect (index update, auto-responder, webhook trigger)
\* executes.
C12_WriteThenHooksThenDetached ==
    /\ \A i \in At("hook") : \E w \in At("save") : w < i
    /\ fx.cfg.plugins =>
         \A j \in DOMAIN fx.log :
             fx.log[j] \in Detached => \E i \in At("hook") : i < j

\* C13: in a CreatePost that returns success the channel caches have been
\* invalidated, and they were before the response transform
\* (PreparePostForClient) was applied.
C13_InvalidatedBeforeTransform ==
    /\ \A j \in At("prepare") : \E i \in At("invalidate") : i < j
    /\ fx.ret = "ok" => At("invalidate") # {}

\* C14: after a successful store write every side effect runs whatever
\* happened to the others: when CreatePost has returned, it has returned the
\* committed post, the caches were invalidated, the notifications were
\* attempted, the auto-responder was dispatched, and so was the webhook
\* trigger when requested.
C14_EffectsIndependent ==
    (fx.pc = "done" /\ At("save") # {})
        => /\ fx.ret = "ok"
           /\ At("invalidate") # {}
           /\ At("notify") \cup At("notify_failed") # {}
           /\ fx.auto # "none"
           /\ fx.cfg.webhooks => fx.webhook # "none"

(* ------------------------------- search -------------------------------- *)

\* The specifications of the call for which a store query was issued.
Issued == {i \in DOMAIN srch.paramsList : srch.paramsList[i] # "*"}
Failed == {i \in Issued : srch.got[i].Err # NoErr}
Aggregated == srch.pc = "done" /\ srch.ran
Ids(o) == {o.Order[i] : i \in DOMAIN o.Order}

\* C15: when at least one of the store queries of searchPostsInTeam returned
\* an error, the aggregator returns an error, that error is the one of a
\* failing query, and the post list returned is nil, in whatever order the
\* queries completed.
C15_QueryErrorFailsSearch ==
    (Aggregated /\ Failed # {})
        => /\ srch.ret = "error"
           /\ srch.from \in Failed
           /\ srch.err = srch.got[srch.from].Err
           /\ srch.posts = NilList

\* Two queries were issued, the one that completed first succeeded with
\* posts, the other one failed, and the call has returned.
C15_Witness ==
    /\ Aggregated
    /\ Len(srch.pchan) = 2
    /\ srch.pchan[1].Err = NoErr /\ srch.pchan[1].Data.Order # <<>>
    /\ srch.pchan[2].Err # NoErr

\* C16: when all store queries of searchPostsInTeam succeeded, the list
\* returned holds exactly the posts the queries returned, each of them once,
\* in the order of their creation time (newest first).
C16_UnionSortedNoDuplicates ==
    (Aggregated /\ Failed = {})
        => /\ srch.ret = "posts"
           /\ Ids(srch.posts) = UNION {Ids(srch.got[i].Data) : i \in Issued}
           /\ \A i, j \in DOMAIN srch.posts.Order :
                  i # j => srch.posts.Order[i] # srch.posts.Order[j]
           /\ \A i, j \in DOMAIN srch.posts.Order :
                  i < j => CreateAtOf[srch.posts.Order[i]]
                               >= CreateAtOf[srch.posts.Order[j]]

\* Two queries succeeded, both matched the oldest post, which the first one
\* returned ahead of a newer post that only it matched.
C16_Witness ==
    /\ Aggregated /\ srch.ret = "posts"
    /\ Len(srch.pchan) = 2
    /\ srch.pchan[1].Data.Order = <<1, 2>>
    /\ srch.pchan[2].Data.Order = <<3, 1>>

UserSearchDone == srch.pc = "done" /\ srch.caller = "user"
IndexUnavailable == ~srch.esEnabled \/ srch.es = "error"

\* C17 as stated: in SearchPostsInTeamForUser, when the index backend is
\* disabled or its search failed, the aggregator runs only for page 0 and a
\* later page gives an empty result, no error and no store query; when the
\* index backend is enabled and succeeds the aggregator does not run.
C17_FallbackFirstPageOnly ==
    /\ (UserSearchDone /\ IndexUnavailable /\ srch.page > 0)
           => srch.ret = "empty" /\ srch.err = NoErr /\ ~srch.ran
    /\ (srch.caller = "user" /\ srch.ran) => srch.page = 0
    /\ (srch.caller = "user" /\ srch.es = "ok") => ~srch.ran

\* C17 amended: the same, for calls made while post search is enabled in the
\* configuration; while it is disabled every call, of any page, returns the
\* error "search disabled" and runs neither the index search nor the
\* aggregator.
C17_FallbackFirstPageOnlyWhenSearchEnabled ==
    /\ (UserSearchDone /\ srch.enablePostSearch /\ IndexUnavailable
        /\ srch.page > 0)
           => /\ srch.ret = "empty" /\ srch.err = NoErr /\ ~srch.ran
              /\ srch.posts = NewPostList /\ srch.pchan = <<>>
    /\ (UserSearchDone /\ srch.enablePostSearch /\ IndexUnavailable
        /\ srch.page = 0) => srch.ran
    /\ (srch.caller = "user" /\ srch.ran) => srch.page = 0
    /\ (srch.caller = "user" /\ srch.es = "ok")
           => ~srch.ran /\ (srch.pc = "done" => srch.ret = "index")
    /\ (UserSearchDone /\ ~srch.enablePostSearch)
           => /\ srch.ret = "error" /\ srch.err = ErrSearchDisabled
              /\ ~srch.ran /\ srch.es = "none"

\* The index search failed for a later page and the call returned.
C17_Witness ==
    /\ UserSearchDone /\ srch.enablePostSearch
    /\ srch.es = "error" /\ srch.page > 0

(* --------------------------- thread validation -------------------------- *)

ThreadErrors == {ErrRootId, ErrChannelRootId, ErrParentId}
Returned(c) == call[c].pc = "idle" /\ call[c].ret # "none"

\* C18 as stated: a create whose root post has a root, whose parent is not
\* in the root's thread, or whose root thread is not in the post's channel
\* never reaches Store.Post().Save and returns, through CreatePostAsUser, an
\* error of status bad-request.
C18_BadThreadIsBadRequest ==
    \A c \in Calls :
        call[c].thread \in BadThreads
            => /\ ~call[c].wrote
               /\ Returned(c)
               /\ call[c].ret = "error"
               /\ CreatePostAsUserStatus(call[c].err) = StatusBadRequest

\* C18 amended: such a create never reaches Store.Post().Save and returns an
\* error; unless the author lookup failed or the read-only town-square
\* policy rejected the post before the thread was checked, the error is the
\* one of the thread check and has status bad-request through
\* CreatePostAsUser.
C18_BadThreadRejected ==
    \A c \in Calls :
        call[c].thread \in BadThreads
            => /\ ~call[c].wrote /\ ~call[c].ran
               /\ Returned(c)
               /\ call[c].ret = "error"
               /\ \/ call[c].err \in {ErrUserGet, ErrReadOnly}
                  \/ /\ call[c].err = ThreadError(call[c].thread)
                     /\ call[c].err \in ThreadErrors
                     /\ CreatePostAsUserStatus(call[c].err) = StatusBadRequest

\* A create whose parent is not in the root's thread was rejected by the
\* thread check, with an error that CreatePost itself gives status 500.
C18_Witness ==
    /\ Returned(Client)
    /\ call[Client].thread = "parent_missing"
    /\ call[Client].err = ErrParentId
    /\ Status(call[Client].err) = StatusInternalServerError

(* ------------------------------ UpdatePost ------------------------------ *)

\* The call c found the post it was to update, not deleted and not a system
\* message.
Editable(c) ==
    /\ c.old # nil
    /\ c.err \notin {ErrPostGet, ErrUpdateFind, ErrUpdateDeleted, ErrUpdateSystem}

\* The call changed the message, and the check of line 500 ran after the end
\* of the edit window.
LateEdit(c) ==
    /\ Editable(c)
    /\ c.limit # -1
    /\ c.t > c.old.CreateAt + c.limit * MillisPerSecond
    /\ c.post.Message # c.old.Message

NotUpdated(c) == ~c.wrote /\ c.rpost = nil

\* C19 as stated: with an edit time limit of N seconds (N # -1), an update
\* changing the message later than createdAt + N seconds is rejected with a
\* bad-request error and without a store update; with the limit -1, and for
\* an update leaving the message unchanged, the time limit rejects nothing.
C19_LateEditRejected ==
    \A u \in Updaters :
        /\ LateEdit(upd.call[u])
              => /\ upd.call[u].err # NoErr
                 /\ UpdateStatus(upd.call[u].err) = StatusBadRequest
                 /\ NotUpdated(upd.call[u])
        /\ (upd.call[u].limit = -1 \/ upd.call[u].post.Message = upd.call[u].old.Message)
              => upd.call[u].err # ErrUpdateTimeLimit

\* C19 amended: the same on a server with a license, the time of the update
\* being the one the check of line 500 reads; without a license the time
\* limit rejects nothing.
C19_LateEditRejectedWithLicense ==
    \A u \in Updaters :
        LET c == upd.call[u]
        IN  /\ (LateEdit(c) /\ c.license)
                  => /\ c.err = ErrUpdateTimeLimit
                     /\ UpdateStatus(c.err) = StatusBadRequest
                     /\ NotUpdated(c)
            /\ c.err = ErrUpdateTimeLimit => LateEdit(c) /\ c.license
            /\ (c.limit = -1 \/ c.post.Message = c.old.Message \/ ~c.license)
                  => c.err # ErrUpdateTimeLimit

\* With a license and the limit enabled, the message was changed one
\* millisecond after the end of the edit window and the call was rejected.
C19_Witness ==
    \E u \in Updaters :
        /\ LateEdit(upd.call[u]) /\ upd.call[u].license
        /\ upd.call[u].pc = "done"
        /\ upd.call[u].t = upd.call[u].old.CreateAt + upd.call[u].limit * MillisPerSecond + 1
        /\ upd.call[u].err = ErrUpdateTimeLimit

\* The four fields the safe flag is about.
Guarded(p) == <<p.IsPinned, p.HasReactions, p.FileIds, p.Props>>

\* C20 as stated: the new version UpdatePost hands to the pre-commit hooks
\* and the store has IsPinned, HasReactions, FileIds and Props of the stored
\* old post when safeUpdate is set, and the values the caller supplied when
\* it is not.
C20_SafeUpdateKeepsFields ==
    \A u \in Updaters :
        upd.call[u].built # nil
            => Guarded(upd.call[u].built) =
                   IF upd.call[u].safeUpdate THEN Guarded(upd.call[u].old)
                   ELSE Guarded(upd.call[u].post)

\* C20 amended: with safeUpdate the four fields of the new version are those
\* of the old post as the call read it; without it IsPinned, HasReactions
\* and FileIds are the caller's, and Props is the caller's map as UpdatePost
\* leaves it: what the caller supplied except for the keys sanitization
\* removes and, when the caller supplied a map, the channel_mentions key,
\* which enrichment removes or sets.  The first hook gets this version, and
\* so does the store when no plugin hook ran.
C20_SafeUpdateKeepsOldFields ==
    \A u \in Updaters :
        LET c == upd.call[u]
        IN  c.built # nil
                => /\ c.safeUpdate => Guarded(c.built) = Guarded(c.old)
                   /\ ~c.safeUpdate
                         => /\ c.built.IsPinned = c.post.IsPinned
                            /\ c.built.HasReactions = c.post.HasReactions
                            /\ c.built.FileIds = c.post.FileIds
                            /\ c.built.Props.isNil = c.post.Props.isNil
                            /\ c.built.Props.attachments = c.post.Props.attachments
                            /\ c.built.Props.channel_mentions \in
                                   IF c.post.Props.isNil THEN {0} ELSE {0, 2}
                   /\ (c.hist = <<>> /\ c.wrote /\ c.err = NoErr)
                         => c.rpost = c.built

\* A safe update whose caller supplied other values for all four fields
\* reached a plugin hook.
C20_Witness ==
    \E u \in Updaters :
        LET c == upd.call[u]
        IN  /\ c.built # nil /\ c.safeUpdate /\ Len(c.hist) = 1
            /\ c.post.IsPinned # c.old.IsPinned
            /\ c.post.HasReactions # c.old.HasReactions
            /\ c.post.FileIds # c.old.FileIds
            /\ c.post.Props # c.old.Props

(* ------------------------------ DeletePost ------------------------------ *)

\* C21: once the store soft-delete has succeeded, DeletePost returns the
\* post and no error whatever the cleanup goroutines do and whenever they do
\* it, and the failure of one cleanup keeps none of the others from being
\* started and from running.
C21_DeleteSucceedsDespiteCleanups ==
    /\ (del.deleted /\ del.pc = "done")
           => /\ del.ret = "post" /\ del.err = NoErr
              /\ del.files # "none" /\ del.flagged # "none"
              /\ del.es => del.index # "none"
    /\ (del.deleted /\ del.files = "spawned") => ENABLED DeletePostFiles
    /\ (del.deleted /\ del.flagged = "spawned") => ENABLED DeleteFlaggedPosts
    /\ (del.deleted /\ del.index = "spawned") => ENABLED DeleteIndexPost

\* The file cleanup and the index removal failed, the flagged-preference
\* cleanup succeeded, and the post was returned.
C21_Witness ==
    /\ del.pc = "done" /\ del.ret = "post"
    /\ del.files = "failed" /\ del.flagged = "done" /\ del.index = "failed"

(* --------------------------- read-only channel -------------------------- *)

\* CreatePost rejected the client's post by the read-only policy: the
\* forbidden error, no store write, no cache entry left for the post's
\* pending post id when it has one.
ReadOnlyRejected ==
    /\ Returned(Client)
    /\ call[Client].ret = "error"
    /\ call[Client].err = ErrReadOnly
    /\ Status(call[Client].err) = StatusForbidden
    /\ ~call[Client].wrote
    /\ call[Client].token \in Tokens
           => /\ call[Client].snap = NoEntry.value
              /\ cache[call[Client].token] = NoEntry

NoticeToAuthor == <<[userId |-> Author, type |-> "ephemeral"]>>

\* C22 as stated: when the read-only town-square policy applies, CreatePost
\* returns the forbidden error without calling Store.Post().Save and
\* releases the token, and CreatePostAsUser then publishes one ephemeral
\* post to the author only and saves nothing.
C22_ReadOnlyRejectsAndNotifies ==
    call[Client].readOnly
        => /\ ReadOnlyRejected
           /\ asUser.pc = "done"
                 => /\ asUser.events = NoticeToAuthor
                    /\ posts = asUser.posts0

\* C22 amended: the same, except that CreatePostAsUser looks the author up
\* itself before it publishes: when that lookup fails it returns the
\* lookup's error and publishes nothing.  No other error of CreatePost
\* leads to an ephemeral post.
C22_ReadOnlyRejectsAndNotifiesAuthorFound ==
    /\ call[Client].readOnly
        => /\ ReadOnlyRejected
           /\ asUser.pc = "done"
                 => /\ asUser.ret = "error"
                    /\ posts = asUser.posts0
                    /\ \/ /\ asUser.err = ErrReadOnly
                          /\ asUser.status = StatusForbidden
                          /\ asUser.events = NoticeToAuthor
                       \/ /\ asUser.err = ErrUserGet
                          /\ asUser.events = <<>>
    /\ asUser.events # <<>> => call[Client].readOnly

\* A post with a pending post id was rejected by the policy and the author
\* was sent the notice.
C22_Witness ==
    /\ call[Client].readOnly /\ call[Client].token \in Tokens
    /\ asUser.pc = "done" /\ asUser.events = NoticeToAuthor

(* ------------------------------ attachments ----------------------------- *)

\* The file ids of a request whose AttachToPost call succeeded, in the
\* order of the request.
RECURSIVE Succeeded(_, _, _)
Succeeded(request, results, i) ==
    IF i > Len(request) THEN <<>>
    ELSE IF results[i] THEN <<request[i]>> \o Succeeded(request, results, i + 1)
    ELSE Succeeded(request, results, i + 1)

LogAt(e) == {i \in DOMAIN att.log : att.log[i] = e}

\* C23: a successful CreatePost of a post with file ids returns a post whose
\* FileIds are exactly the ids whose AttachToPost call succeeded, in the
\* order of the request, and the attachment has ended before the response
\* transform and before the return.
C23_ReturnedFilesAreAttachedFiles ==
    /\ (att.pc = "done" /\ att.ret = "post" /\ att.request # <<>>)
           => /\ Len(att.results) = Len(att.request)
              /\ att.rpost = Succeeded(att.request, att.results, 1)
    /\ att.request # <<>>
           => /\ \A p \in LogAt("prepare") : \E a \in LogAt("attached") : a < p
              /\ \A r \in LogAt("return") : \E a \in LogAt("attached") : a < r

\* Of two files the first one could not be attached, the overwrite of the
\* post failed as well, and the post was returned with the second file only.
C23_Witness ==
    /\ att.pc = "done" /\ att.ret = "post"
    /\ att.request = <<"f1", "f2">> /\ att.results = <<FALSE, TRUE>>
    /\ att.stored = att.request
    /\ att.rpost = <<"f2">>

(* ------------------------- the query goroutines ------------------------- *)

\* The queries that have sent their result.
Delivered == {srch.pchan[i].from : i \in DOMAIN srch.pchan}

\* No query goroutine is blocked on its send, and after the aggregator has
\* merged, every query it started has delivered and none is running.
QueriesJoined ==
    /\ (srch.pc = "queries" /\ srch.running # {})
           => Len(srch.pchan) < Capacity(srch.paramsList)
    /\ srch.ran => /\ Len(srch.pchan) <= Len(srch.paramsList)
                   /\ srch.running \cup Delivered = Issued
                   /\ srch.running \cap Delivered = {}
    /\ (srch.pc = "done" /\ srch.ran)
           => /\ srch.running = {}
              /\ Delivered = Issued
              /\ srch.ret \in {"posts", "error"}

\* C24: searchPostsInTeam always terminates and joins its query tasks: no
\* task blocks delivering its result, the merge starts only after every
\* started query has delivered, and no task is running when it returns, with
\* or without an error and for any number of specifications.
C24_SearchTerminatesAndJoins ==
    /\ []QueriesJoined
    /\ (srch.pc = "queries") ~> (srch.pc = "done")

\* Two queries delivered, the first an error: the aggregator returned the
\* error with no query running.
C24_Witness ==
    /\ srch.pc = "done" /\ srch.ran /\ srch.ret = "error"
    /\ Len(srch.pchan) = 2 /\ srch.pchan[1].Err # NoErr
    /\ srch.running = {}

(* ----------------------- the order of completion ------------------------ *)

\* The orders in which the queries that delivered could have completed.
CompletionOrders ==
    {[i \in DOMAIN srch.pchan |-> srch.pchan[f[i]]] :
        f \in Permutations(DOMAIN srch.pchan)}

\* What the aggregator can return for the same query results in any order
\* of completion.
Returnable == UNION {Aggregate(q) : q \in CompletionOrders}

AllSucceeded == Aggregated /\ Failed = {}

\* The merged lists before the sort, one for every order of completion.
MergedLists == {Merge(q, 1, NewPostList).posts : q \in CompletionOrders}

\* C25: for query results that all succeed, the list searchPostsInTeam
\* returns, order included, is the same for every order in which the
\* queries complete.
C25_SameListForEveryOrder ==
    AllSucceeded => \A m \in Returnable : m.err = NoErr /\ m.posts = srch.posts

\* Two queries found the two posts of equal CreateAt, one each, and the
\* older post both; the merged list depends on which query completed first,
\* and the list returned has the three posts.
C25_Witness ==
    /\ AllSucceeded
    /\ Len(srch.pchan) = 2
    /\ srch.pchan[1].Data.Order = <<2, 1>>
    /\ srch.pchan[2].Data.Order = <<3, 1>>
    /\ Len(srch.posts.Order) = 3
    /\ Cardinality(MergedLists) > 1

(* ----------------------------- the wildcard ----------------------------- *)

Wildcards == {i \in DOMAIN srch.paramsList : srch.paramsList[i] = "*"}
OnlyWildcards == Wildcards = DOMAIN srch.paramsList

\* C26: no store search and no index search is issued for a specification
\* whose term is "*"; searchPostsInTeam skips it without applying the
\* modifier, and when every specification is the wildcard searchPostsInTeam
\* and esSearchPostsInTeamForUser return an empty list and no error without
\* a query to the store or to the index.
C26_WildcardNeverSearched ==
    /\ (srch.running \cup Delivered \cup srch.modified \cup srch.asked)
           \cap Wildcards = {}
    /\ (Aggregated /\ OnlyWildcards)
           => /\ srch.ret = "posts" /\ srch.err = NoErr
              /\ srch.posts = NewPostList
              /\ srch.pchan = <<>>
    /\ (UserSearchDone /\ srch.es # "none" /\ OnlyWildcards)
           => /\ srch.es = "ok" /\ srch.ret = "index" /\ srch.err = NoErr
              /\ srch.posts = NewPostList
              /\ srch.asked = {} /\ srch.pchan = <<>>

\* Of a wildcard and a term the aggregator searched the term only.
C26_Witness ==
    /\ Aggregated /\ srch.ret = "posts"
    /\ srch.paramsList = <<"*", "a">>
    /\ Delivered = {2} /\ srch.modified = {2}

(* ---------------------- the fallback after an error --------------------- *)

\* The filters the store query of specification i receives when the index
\* backend is disabled.
SentWhenDisabled(i) ==
    ModifierFun(srch.request[i], srch.isOrSearch, srch.lookupOk)

\* C29: on page 0 of SearchPostsInTeamForUser, the store queries of the
\* fallback after an error of the index backend receive the specifications
\* (term, channel and user filters, OR flag) that the store queries receive
\* when the index backend is disabled; the failed attempt leaves no rewritten
\* filter value in them.
C29_FallbackSameSpecifications ==
    (srch.caller = "user" /\ srch.ran /\ srch.page = 0)
        => \A i \in DOMAIN srch.sent : srch.sent[i] = SentWhenDisabled(i)

(* ------------------------- requests without token ----------------------- *)

\* C27: a CreatePost call whose post carries no pending post id leaves the
\* cache as it is in each of its steps, whether it succeeds or fails: it
\* performs no GetOrAdd, no AddWithExpiresInSecs and no Remove.
C27_NoTokenNoCacheOperation ==
    [][\A c \in Calls :
          (call'[c] # call[c] /\ call'[c].token = "") => cache' = cache]_vars

(* --------------------------- the cache entries -------------------------- *)

\* C30: in every state the value of each cache entry is the sentinel or the
\* id of a post that Store.Post().Save has returned for a request that
\* carried the key of the entry: no final value is recorded before the store
\* write succeeded, and none names a post saved for another token.
C30_EntryNamesPostOfItsToken ==
    \A k \in DOMAIN cache :
        cache[k] # NoEntry =>
            \/ cache[k].value = unknownPostId
            \/ cache[k].value \in SavedFor(k)

(* ------------------------- the root thread fetch ------------------------ *)

\* The goroutine is not waiting at its send, and CreatePost is at the store
\* write for a post with a root only after it has received what the
\* goroutine fetched and found the thread in order.
FetchNeverBlocked ==
    /\ thr.fetch = "send" => ENABLED ThreadSend
    /\ (thr.rootId /\ (thr.pc = "save" \/ thr.ret = "saved"))
           => /\ thr.fetch \in {"close", "done"}
              /\ thr.result = thr.t
              /\ thr.validated /\ thr.parentId # ""
              /\ thr.result \notin BadThreads \cup {"fetch_error"}

\* C28: the goroutine that fetches the root thread always completes without
\* blocking, also when CreatePost returns early without reading its result
\* (author lookup failure, read-only policy); and when CreatePost reaches the
\* store write for a post with a root, it has received the fetch result and
\* validated the thread.
C28_FetchCompletesAndPrecedesSave ==
    /\ []FetchNeverBlocked
    /\ (thr.fetch = "get") ~> (thr.fetch = "done")

\* CreatePost returned the read-only error for a post with a root; the
\* goroutine has sent its result, which nobody reads, and ended.
C28_Witness ==
    /\ thr.pc = "done" /\ thr.err = ErrReadOnly /\ thr.rootId
    /\ thr.fetch = "done" /\ Len(thr.pchan) = 1 /\ thr.closed
    /\ thr.result = "none"

====
